---- MODULE Spec2Model ----
(***************************************************************************)
(* A model of the Monad DEX arbitrage bot: the poll loop of                *)
(* ArbitrageBot.run / find_and_execute_arbitrage, the two-leg execution of *)
(* execute_cross_dex_arbitrage, the per-swap routine                       *)
(* TransactionExecutor.swap_tokens, and the two opportunity evaluators of  *)
(* PriceMonitor.                                                           *)
(*                                                                         *)
(* Amounts are integers in one model unit per asset.  The code carries a   *)
(* human-readable float next to the on-chain integer (raw / 10**decimals); *)
(* the model carries the quantity once, in the model unit, and binary      *)
(* floating-point rounding is not modelled.  A price is the rational       *)
(* amount_out / amount_in of a quote; all quotes of one aggregation pass   *)
(* use the same amount_in, so a price is stored as its numerator           *)
(* amount_out over the pass's common denominator.                          *)
(*                                                                         *)
(* The configuration is that of config.py with one pair (MON, USDC), two   *)
(* venues, and the numeric options reduced to small values of the model    *)
(* unit.                                                                   *)
(***************************************************************************)
EXTENDS Integers, Sequences, FiniteSets, TLC

(***************************************************************************)
(* Configuration (config.py)                                               *)
(***************************************************************************)

\* DEX_ROUTERS, in dict iteration order; one venue of each kind.
DEX_ROUTERS == <<"atlantisdex", "monda">>

Venues == {DEX_ROUTERS[i] : i \in 1..Len(DEX_ROUTERS)}

DEX_TYPES == [atlantisdex |-> "algebra", monda |-> "uniswap_v2"]

TOKEN_PAIRS == << <<"MON", "USDC">> >>

\* VOLUME_BOOSTING["target_dex"]
target_dex == "monda"

\* ARBITRAGE_CONFIG["max_trade_amount"]
max_trade_amount == 1

\* ARBITRAGE_CONFIG["min_profit_threshold"]
min_profit_threshold == 0

\* ARBITRAGE_CONFIG["slippage_tolerance"], percent
slippage_tolerance == 1

\* The fixed 1% of _swap_tokens_algebra (expected_out * 0.99), percent
algebra_slippage == 1

\* VOLUME_BOOSTING["min_trade_amount"], ["max_trade_amount"]
vb_min_trade_amount == 1

vb_max_trade_amount == 3

\* VOLUME_BOOSTING["loss_tolerance"], percent
loss_tolerance == 25

\* VOLUME_BOOSTING["volume_limit"]
volume_limit == 3

\* Times, in ticks of the model's clock.
\* ARBITRAGE_CONFIG["trade_interval"], VOLUME_BOOSTING["trade_interval"]
trade_interval == 2

vb_trade_interval == 3

\* ARBITRAGE_CONFIG["price_check_interval"]
price_check_interval == 1

\* The asyncio.sleep(5) that follows an execution.
confirm_sleep == 1

(***************************************************************************)
(* Bounds of the model                                                     *)
(***************************************************************************)

\* Poll cycles of run() that the model follows.
MaxCycles == 2

\* Executions started over the whole run: under Spec, where a swap meets
\* every outcome of SwapEnvs, and under SpecRun, where it meets RunEnvs.
MaxExecs == 1

MaxRunExecs == 2

\* Largest amount a venue quotes or pays out for one swap.
MaxOut == 2

\* Largest amount a venue quotes in a call of the evaluator under SpecEval.
MaxQuote == 3

\* Largest min_profit_threshold a call of the evaluator is configured with
\* under SpecEval.
MaxThreshold == 2

\* Largest estimated gas cost of two legs (gas_limit * gas_price * 2).
MaxGasCost == 1

\* Gas paid by the wallet for one mined transaction.
TxFee == 1

\* The wallet's balances at start.
StartMON == 6

StartUSDC == 1

\* Points of the grid of random.uniform to one unit of round(..., 2).
DrawsPerUnit == 4

(***************************************************************************)
(* Rationals: [n |-> numerator, d |-> denominator], d > 0                  *)
(***************************************************************************)

Rat(n, d) == [n |-> n, d |-> d]

RatLess(a, b) == a.n * b.d < b.n * a.d

RatLeq(a, b) == a.n * b.d <= b.n * a.d

RatSub(a, b) == [n |-> a.n * b.d - b.n * a.d, d |-> a.d * b.d]

RatEq(a, b) == a.n * b.d = b.n * a.d

\* A percentage that is not taken of b.
RatTimes100(a, b) == [n |-> a.n * 100, d |-> a.d]

\* a * 100 / b, for the percentages the code computes.
RatPercentOf(a, b) == [n |-> a.n * 100 * b.d, d |-> a.d * b.n]

(***************************************************************************)
(* Stable sort, largest key first: list.sort(key=..., reverse=True).       *)
(* Items are [key |-> Rat, val |-> opportunity]; equal keys keep the order *)
(* in which they were appended.                                            *)
(***************************************************************************)

RECURSIVE InsertDesc(_, _)
InsertDesc(sorted, item) ==
    IF sorted = << >> THEN << item >>
    ELSE IF RatLess(Head(sorted).key, item.key)
         THEN << item >> \o sorted
         ELSE << Head(sorted) >> \o InsertDesc(Tail(sorted), item)

RECURSIVE SortDesc(_, _)
SortDesc(items, done) ==
    IF items = << >> THEN done
    ELSE SortDesc(Tail(items), InsertDesc(done, Head(items)))

Vals(items) == [i \in 1..Len(items) |-> items[i].val]

\* A list left in the order it was built in.
Unsorted(opps) == opps

SortByExpectedProfit(opps) ==
    Vals(SortDesc([i \in 1..Len(opps) |->
                     [key |-> opps[i].expected_profit, val |-> opps[i]]], << >>))

SortByExpectedProfitPercentage(opps) ==
    Vals(SortDesc([i \in 1..Len(opps) |->
                     [key |-> opps[i].expected_profit_percentage, val |-> opps[i]]], << >>))

(***************************************************************************)
(* PriceMonitor: quotes and the price map                                  *)
(*                                                                         *)
(* A quote table q maps each venue to the amount_out that get_token_price  *)
(* returns for it; 0 stands for the (0, 0, 0) of every failure (router not *)
(* loaded, wrapped address or pool deployer unresolved, reverted call) and *)
(* for an output of 0, both of which give price 0.                         *)
(***************************************************************************)

QuoteTables == [Venues -> 0..MaxOut]

\* The amount get_all_prices quotes with.
QuoteAmount(volume_boosting_enabled) ==
    IF volume_boosting_enabled
    THEN (vb_min_trade_amount + vb_max_trade_amount) \div 2
    ELSE max_trade_amount

AllPairs ==
    {TOKEN_PAIRS[i] : i \in 1..Len(TOKEN_PAIRS)}
    \cup {<<TOKEN_PAIRS[i][2], TOKEN_PAIRS[i][1]>> : i \in 1..Len(TOKEN_PAIRS)}

\* The quotes of one pass of get_all_prices: a quote table per queried pair.
Markets == [AllPairs -> QuoteTables]

\* A pair_prices that keeps every venue, whatever its price.
PairPricesUnfiltered(q, amount_in) ==
    [v \in Venues |-> Rat(q[v], amount_in)]

\* pair_prices of get_all_prices: the venues whose price is > 0.
PairPrices(q, amount_in) ==
    [v \in {w \in Venues : q[w] > 0} |-> Rat(q[v], amount_in)]

get_all_prices(market, volume_boosting_enabled) ==
    LET amt == QuoteAmount(volume_boosting_enabled)
        keys == {k \in AllPairs : PairPrices(market[k], amt) # << >>}
    IN [k \in keys |-> PairPrices(market[k], amt)]

(***************************************************************************)
(* PriceMonitor.check_pair_price_difference: the arbitrage policy          *)
(*   fwd: the quotes token_in -> token_out for max_trade_amount            *)
(*   rev: the quotes token_out -> token_in for the best forward output     *)
(***************************************************************************)

\* The loop with "if price >= best_sell_price": the last of the best venues.
RECURSIVE BestSellLast(_, _, _)
BestSellLast(fwd, i, best) ==
    IF i > Len(DEX_ROUTERS) THEN best
    ELSE LET v == DEX_ROUTERS[i]
         IN IF fwd[v] > 0 /\ (best.dex = "none" \/ fwd[v] >= best.out)
            THEN BestSellLast(fwd, i + 1, [dex |-> v, out |-> fwd[v]])
            ELSE BestSellLast(fwd, i + 1, best)

\* The loop "if price > best_sell_price" over dex_prices, from -1.
RECURSIVE BestSell(_, _, _)
BestSell(fwd, i, best) ==
    IF i > Len(DEX_ROUTERS) THEN best
    ELSE LET v == DEX_ROUTERS[i]
         IN IF fwd[v] > 0 /\ (best.dex = "none" \/ fwd[v] > best.out)
            THEN BestSell(fwd, i + 1, [dex |-> v, out |-> fwd[v]])
            ELSE BestSell(fwd, i + 1, best)

ArbOpportunity(token_in, token_out, sell, buy, profit) ==
    [type |-> "simple",
     token_in |-> token_in,
     token_out |-> token_out,
     token_middle |-> token_out,
     buy_dex |-> buy,
     sell_dex |-> sell,
     max_trade_amount |-> max_trade_amount,
     expected_profit |-> Rat(profit, 1),
     expected_profit_percentage |-> RatPercentOf(Rat(profit, 1), Rat(max_trade_amount, 1))]

\* A loop that also appends a venue whose profit equals the threshold.
RECURSIVE ArbCandidatesAtThreshold(_, _, _, _, _, _)
ArbCandidatesAtThreshold(threshold, token_in, token_out, sell, rev, i) ==
    IF i > Len(DEX_ROUTERS) THEN << >>
    ELSE LET buy == DEX_ROUTERS[i]
             profit == rev[buy] - max_trade_amount
             rest == ArbCandidatesAtThreshold(threshold, token_in, token_out, sell, rev, i + 1)
         IN IF rev[buy] > 0 /\ profit >= threshold
            THEN << ArbOpportunity(token_in, token_out, sell, buy, profit) >> \o rest
            ELSE rest

\* The loop over reverse_price_results, appending in venue order;
\* threshold is ARBITRAGE_CONFIG["min_profit_threshold"] as the call reads it.
RECURSIVE ArbCandidates(_, _, _, _, _, _)
ArbCandidates(threshold, token_in, token_out, sell, rev, i) ==
    IF i > Len(DEX_ROUTERS) THEN << >>
    ELSE LET buy == DEX_ROUTERS[i]
             profit == rev[buy] - max_trade_amount
             rest == ArbCandidates(threshold, token_in, token_out, sell, rev, i + 1)
         IN IF rev[buy] > 0 /\ profit > threshold
            THEN << ArbOpportunity(token_in, token_out, sell, buy, profit) >> \o rest
            ELSE rest

\* The venues check_pair_price_difference asks for a reverse quote: none
\* when it returns before the second gather, else every router.
ReverseQuoted(fwd) ==
    LET best == BestSell(fwd, 1, [dex |-> "none", out |-> 0])
    IN IF best.dex = "none" \/ best.out <= 0 THEN {}
       ELSE {DEX_ROUTERS[i] : i \in 1..Len(DEX_ROUTERS)}

\* check_pair_price_difference under a configured threshold.
CheckPairUnder(threshold, token_in, token_out, fwd, rev) ==
    LET best == BestSell(fwd, 1, [dex |-> "none", out |-> 0])
    IN IF best.dex = "none" \/ best.out <= 0 THEN << >>
       ELSE SortByExpectedProfit(
                ArbCandidates(threshold, token_in, token_out, best.dex, rev, 1))

check_pair_price_difference(token_in, token_out, fwd, rev) ==
    CheckPairUnder(min_profit_threshold, token_in, token_out, fwd, rev)

(***************************************************************************)
(* PriceMonitor.find_volume_boosting_opportunities: the boosting policy    *)
(***************************************************************************)

\* Amounts are counted in the unit of round(trade_amount, 2); random.uniform
\* draws on a finer grid, DrawsPerUnit points to the unit.
DrawsOutOfRange ==
    {Rat(n, DrawsPerUnit) :
        n \in 0..((vb_max_trade_amount + 1) * DrawsPerUnit)}

\* random.uniform(min_trade_amount, max_trade_amount)
Draws ==
    {Rat(n, DrawsPerUnit) :
        n \in (vb_min_trade_amount * DrawsPerUnit)..(vb_max_trade_amount * DrawsPerUnit)}

\* round(trade_amount, 2): to the nearest unit, a tie to the even one.
Round2(x) ==
    LET q == x.n \div x.d
        r == x.n % x.d
    IN IF 2 * r < x.d THEN q
       ELSE IF 2 * r > x.d THEN q + 1
       ELSE IF q % 2 = 0 THEN q ELSE q + 1

TradeAmounts == {Round2(trade_amount) : trade_amount \in Draws}

\* The loop "if price > best_sell_price" over prices[forward_key], from 0.
RECURSIVE VbBestSell(_, _, _)
VbBestSell(pp, i, best) ==
    IF i > Len(DEX_ROUTERS) THEN best
    ELSE LET v == DEX_ROUTERS[i]
         IN IF v \in DOMAIN pp /\ RatLess(best.price, pp[v])
            THEN VbBestSell(pp, i + 1, [dex |-> v, price |-> pp[v]])
            ELSE VbBestSell(pp, i + 1, best)

\* A buy-back venue that falls back on the best reverse price when the
\* target venue has none.
BestBuyBackVenue(reverse_prices) ==
    IF target_dex \in DOMAIN reverse_prices THEN target_dex
    ELSE CHOOSE v \in DOMAIN reverse_prices :
             \A w \in DOMAIN reverse_prices : RatLeq(reverse_prices[w], reverse_prices[v])

\* "if target_dex not in prices[reverse_key]: continue": the venue to buy
\* back on is the target venue or none.
BuyBackVenue(reverse_prices) ==
    IF target_dex \in DOMAIN reverse_prices THEN target_dex ELSE "none"

\* A test that discards a loss equal to the tolerance.
InsideTolerance(pct) == RatLess(Rat(0 - loss_tolerance, 1), pct)

\* "if profit_percentage >= -loss_tolerance".
WithinTolerance(pct) == RatLeq(Rat(0 - loss_tolerance, 1), pct)

\* The body of the loop over trading_pairs, for one pair and its drawn amount.
VbForPair(token_in, token_out, prices, trade_amount) ==
    LET forward_key == <<token_in, token_out>>
        reverse_key == <<token_out, token_in>>
    IN IF forward_key \notin DOMAIN prices THEN << >>
       ELSE LET best == VbBestSell(prices[forward_key], 1,
                                   [dex |-> "none", price |-> Rat(0, 1)])
            IN IF best.dex = "none" THEN << >>
               ELSE IF reverse_key \notin DOMAIN prices THEN << >>
               ELSE IF BuyBackVenue(prices[reverse_key]) = "none" THEN << >>
               ELSE LET buy_dex == BuyBackVenue(prices[reverse_key])
                        buy == prices[reverse_key][buy_dex]
                        final_token_in == Rat(trade_amount * best.price.n * buy.n,
                                              best.price.d * buy.d)
                        profit == RatSub(final_token_in, Rat(trade_amount, 1))
                        pct == RatPercentOf(profit, Rat(trade_amount, 1))
                    IN IF WithinTolerance(pct)
                       THEN << [type |-> "volume_boosting",
                                token_in |-> token_in,
                                token_out |-> token_out,
                                sell_dex |-> best.dex,
                                buy_dex |-> buy_dex,
                                expected_profit |-> profit,
                                expected_profit_percentage |-> pct,
                                max_trade_amount |-> trade_amount] >>
                       ELSE << >>

RECURSIVE VbCollect(_, _, _, _)
VbCollect(trading_pairs, prices, amounts, i) ==
    IF i > Len(trading_pairs) THEN << >>
    ELSE VbForPair(trading_pairs[i][1], trading_pairs[i][2], prices, amounts[i])
         \o VbCollect(trading_pairs, prices, amounts, i + 1)

\* trading_pairs: the parsed "IN-OUT" strings; amounts: one random draw per pair.
find_volume_boosting_opportunities(volume_boosting_enabled, trading_pairs, prices, amounts) ==
    IF ~volume_boosting_enabled THEN << >>
    ELSE IF target_dex \notin Venues THEN << >>
    ELSE SortByExpectedProfitPercentage(VbCollect(trading_pairs, prices, amounts, 1))

(***************************************************************************)
(* TransactionExecutor: the wallet on chain and one swap                   *)
(*                                                                         *)
(* A chain state c is [balance, allowance, txs, pre]:                      *)
(*   balance    the wallet's balance of each token                         *)
(*   allowance  the USDC allowance the wallet has given each venue's router*)
(*   txs        the swap transactions of the wallet that were mined; each  *)
(*              carries the call it belongs to (exec, leg), the quote its  *)
(*              minimum came from, what the venue paid (got) and the       *)
(*              change of the wallet's balance of token_out (delta)        *)
(*   pre        the field pre_tx_mon_balance of the executor               *)
(* A transaction hash is the transaction's index in txs; 0 is None.        *)
(*                                                                         *)
(* The environment's part in one call of swap_tokens is a record env:      *)
(*   approve  "ok" | "raise"      the approve transaction, when one is sent*)
(*   quote    -1 | MaxOut         the pre-submission quote; -1: it failed  *)
(*   submit   "raise" | "revert" | "ok"                                    *)
(*   got      1..MaxOut           what the venue pays out on success       *)
(***************************************************************************)

\* max_amount of approve_token, 2**256 - 1.
MAX_UINT256 == 1000000

SwapEnvs ==
    [approve : {"ok", "raise"},
     quote   : {0 - 1, MaxOut},
     submit  : {"raise", "revert", "ok"},
     got     : 1..MaxOut]

Failure(c) == [ok |-> FALSE, tx_hash |-> 0, amount_out |-> 0, c |-> c]

approve_token(c, token_name, dex, env) ==
    IF token_name = "MON" THEN [success |-> TRUE, c |-> c]
    ELSE IF c.allowance[dex] > 0 THEN [success |-> TRUE, c |-> c]
    ELSE IF env.approve = "ok" /\ c.balance["MON"] >= TxFee
         THEN [success |-> TRUE,
               c |-> [c EXCEPT !.allowance[dex] = MAX_UINT256,
                               !.balance["MON"] = @ - TxFee]]
         ELSE [success |-> FALSE, c |-> c]

\* A minimum that takes the quote without the slippage allowance.
V2MinAmountOutNoSlippage(quote) ==
    IF quote < 0 THEN 0 ELSE quote

\* min_amount_out of a swap after the quote attempt (the callers pass 0).
V2MinAmountOut(quote) ==
    IF quote < 0 THEN 0
    ELSE (quote * (100 - slippage_tolerance)) \div 100

AlgebraMinAmountOut(quote) ==
    IF quote < 0 THEN 0
    ELSE (quote * (100 - algebra_slippage)) \div 100

\* token_out_amount after a receipt with status 1.
TokenOutAmount(c, token_out) ==
    IF token_out = "MON"
    THEN c.balance["MON"] - c.pre
    ELSE c.balance[token_out]

\* Sign, send, wait for the receipt, read the output: the tail shared by
\* _swap_tokens_uniswap_v2 and _swap_tokens_algebra.
SubmitSwap(c, dex, token_in, token_out, amount_in, min_amount_out, env, tag) ==
    LET need == IF token_in = "MON" THEN amount_in + TxFee ELSE TxFee
        hash == Len(c.txs) + 1
        tx == [hash |-> hash, dex |-> dex, token_in |-> token_in,
               token_out |-> token_out, amount_in |-> amount_in,
               min_out |-> min_amount_out, quote |-> env.quote,
               exec |-> tag.exec, leg |-> tag.leg]
    IN IF env.submit = "raise" \/ c.balance["MON"] < need
       THEN Failure(c)
       ELSE IF env.submit = "revert" \/ env.got < min_amount_out
                \/ c.balance[token_in] < amount_in
                \/ (token_in # "MON" /\ c.allowance[dex] < amount_in)
            THEN [ok |-> FALSE, tx_hash |-> hash, amount_out |-> 0,
                  c |-> [c EXCEPT !.balance["MON"] = @ - TxFee,
                                  !.txs = Append(@, tx @@ [status |-> 0, got |-> 0, delta |-> 0])]]
            ELSE LET paid == [c.balance EXCEPT ![token_in] = @ - amount_in]
                     recv == [paid EXCEPT ![token_out] = @ + env.got]
                     after == [recv EXCEPT !["MON"] = @ - TxFee]
                     c2 == [c EXCEPT !.balance = after,
                                     !.txs = Append(@, tx @@
                                                [status |-> 1, got |-> env.got,
                                                 delta |-> after[token_out] - c.balance[token_out]])]
                 IN [ok |-> TRUE, tx_hash |-> hash,
                     amount_out |-> TokenOutAmount(c2, token_out), c |-> c2]

swap_tokens_uniswap_v2(c, dex, token_in, token_out, amount_in, env, tag) ==
    LET c1 == IF token_out = "MON" THEN [c EXCEPT !.pre = c.balance["MON"]] ELSE c
    IN SubmitSwap(c1, dex, token_in, token_out, amount_in,
                  V2MinAmountOut(env.quote), env, tag)

swap_tokens_algebra(c, dex, token_in, token_out, amount_in, env, tag) ==
    SubmitSwap(c, dex, token_in, token_out, amount_in,
               AlgebraMinAmountOut(env.quote), env, tag)

swap_tokens(c, dex, token_in, token_out, amount_in, env, tag) ==
    LET c1 == IF token_out = "MON" THEN [c EXCEPT !.pre = c.balance["MON"]] ELSE c
    IN IF c1.balance[token_in] < amount_in THEN Failure(c1)
       ELSE LET ap == approve_token(c1, token_in, dex, env)
            IN IF ~ap.success THEN Failure(ap.c)
               ELSE IF DEX_TYPES[dex] = "algebra"
                    THEN swap_tokens_algebra(ap.c, dex, token_in, token_out, amount_in, env, tag)
                    ELSE swap_tokens_uniswap_v2(ap.c, dex, token_in, token_out, amount_in, env, tag)

(***************************************************************************)
(* The caches of PriceMonitor and TransactionExecutor.  None of the three  *)
(* resolvers awaits between its test of the cache and its write, so a call *)
(* is one step.                                                            *)
(*   answer: what the contract call returns, or that it raises             *)
(***************************************************************************)

Address(hex, checksummed) == [hex |-> hex, checksummed |-> checksummed]

\* Web3.to_checksum_address
to_checksum_address(a) == [a EXCEPT !.checksummed = TRUE]

\* None, and the zero address get_pool_deployer falls back to.
None == Address("None", FALSE)

ZeroAddress == Address("0x0000000000000000000000000000000000000000", FALSE)

\* WRAPPED_MON as config.py defaults it.
ConfiguredWrappedMon == Address("0x760afe86e5de5fa0ee542fc7b7b713e1c5425701", FALSE)

\* config.WRAPPED_MON as the environment can set it: the default, or empty.
WrappedMonSettings == {ConfiguredWrappedMon, Address("", FALSE)}

ContractAnswers ==
    [raises : BOOLEAN, value : {Address("0xA", TRUE), Address("0xB", TRUE)}]

DecimalsAnswers == [raises : BOOLEAN, value : {6, 18}]

\* The names get_token_decimals is called with: the native asset, a loaded
\* token, a token that is not configured.
TokenNames == {"MON", "USDC", "DAI"}

\* TransactionExecutor.tokens
LoadedTokens == {"USDC"}

\* cache[key] = value
Cached(cache, key, value) ==
    [k \in DOMAIN cache \cup {key} |-> IF k = key THEN value ELSE cache[k]]

\* get_weth_address without the test of the cache.
GetWethAddressUncached(cache, wrapped_mon, dex_name, answer) ==
    IF wrapped_mon.hex # ""
    THEN [value |-> wrapped_mon, cache |-> Cached(cache, dex_name, wrapped_mon)]
    ELSE IF answer.raises THEN [value |-> None, cache |-> cache]
    ELSE [value |-> answer.value, cache |-> Cached(cache, dex_name, answer.value)]

\* PriceMonitor.get_weth_address
get_weth_address(cache, wrapped_mon, dex_name, answer) ==
    IF dex_name \in DOMAIN cache
    THEN [value |-> cache[dex_name], cache |-> cache]
    ELSE IF wrapped_mon.hex # ""
    THEN [value |-> wrapped_mon, cache |-> Cached(cache, dex_name, wrapped_mon)]
    ELSE IF answer.raises THEN [value |-> None, cache |-> cache]
    ELSE [value |-> answer.value, cache |-> Cached(cache, dex_name, answer.value)]

\* TransactionExecutor.get_weth_address
executor_get_weth_address(cache, wrapped_mon, dex_name, answer) ==
    IF dex_name \in DOMAIN cache
    THEN [value |-> cache[dex_name], cache |-> cache]
    ELSE IF wrapped_mon.hex # ""
    THEN [value |-> to_checksum_address(wrapped_mon),
          cache |-> Cached(cache, dex_name, to_checksum_address(wrapped_mon))]
    ELSE IF answer.raises THEN [value |-> None, cache |-> cache]
    ELSE [value |-> answer.value, cache |-> Cached(cache, dex_name, answer.value)]

\* TransactionExecutor.get_pool_deployer
get_pool_deployer(cache, dex_name, answer) ==
    IF dex_name \in DOMAIN cache
    THEN [value |-> cache[dex_name], cache |-> cache]
    ELSE IF DEX_TYPES[dex_name] = "algebra"
    THEN IF answer.raises THEN [value |-> ZeroAddress, cache |-> cache]
         ELSE [value |-> answer.value, cache |-> Cached(cache, dex_name, answer.value)]
    ELSE [value |-> ZeroAddress, cache |-> cache]

\* The fallback of get_token_decimals and the preset of __init__.
DefaultDecimals(token_name) == IF token_name \in {"USDC", "USDT"} THEN 6 ELSE 18

\* TransactionExecutor.get_token_decimals
get_token_decimals(cache, token_name, answer) ==
    IF token_name \in DOMAIN cache
    THEN [value |-> cache[token_name], cache |-> cache]
    ELSE IF token_name = "MON" THEN [value |-> 18, cache |-> cache]
    ELSE IF token_name \notin LoadedTokens
    THEN [value |-> DefaultDecimals(token_name), cache |-> cache]
    ELSE IF answer.raises
    THEN [value |-> DefaultDecimals(token_name), cache |-> cache]
    ELSE [value |-> answer.value, cache |-> Cached(cache, token_name, answer.value)]

(***************************************************************************)
(* ArbitrageBot: state                                                     *)
(***************************************************************************)

VARIABLES
    volume_boosting_enabled, \* VOLUME_BOOSTING["enabled"]
    include_gas,             \* VOLUME_BOOSTING["include_gas_in_calculation"]
    balance,                 \* chain: the wallet's balance of each token
    allowance,               \* chain: the routers' USDC allowances
    txs,                     \* chain: the wallet's mined swap transactions
    pre_tx_mon_balance,      \* TransactionExecutor.pre_tx_mon_balance
    execs,                   \* the calls of execute_cross_dex_arbitrage, in order
    pc,                      \* where run() / find_and_execute_arbitrage stands
    cur,                     \* the call the driver awaits (index in execs)
    cycle,                   \* poll cycles started
    valid_pairs,             \* what is left of the for loop over valid_pairs
    all_prices,              \* the cycle's price map
    trade_history,           \* ArbitrageBot.trade_history
    stats,                   \* ArbitrageBot.stats
    total_volume_usdc,       \* ArbitrageBot.total_volume_usdc
    since,                   \* time.time() - last_trade_time, up to SinceCap
    saved,                   \* records of trade_history in data/trade_history.json
    call,                    \* SpecEval: the function under evaluation and its inputs
    result,                  \* SpecEval: what the call returned
    tasks,                   \* SpecEval: the quotes of a gather that have completed
    WRAPPED_MON,             \* config.WRAPPED_MON
    caches                   \* the caches of PriceMonitor and TransactionExecutor

vars == <<volume_boosting_enabled, include_gas, balance, allowance, txs,
          pre_tx_mon_balance, execs, pc, cur, cycle, valid_pairs, all_prices,
          trade_history, stats, total_volume_usdc, since, saved, call, result,
          tasks, WRAPPED_MON, caches>>

resolver == <<WRAPPED_MON, caches>>

evaluation == <<call, result, tasks>>

\* No function is under evaluation / the call has not returned.
Idle == [fn |-> "none"]

Pending == [pending |-> TRUE]

config == <<volume_boosting_enabled, include_gas>>

Chain == [balance |-> balance, allowance |-> allowance, txs |-> txs,
          pre |-> pre_tx_mon_balance]

SetChain(c) ==
    /\ balance' = c.balance
    /\ allowance' = c.allowance
    /\ txs' = c.txs
    /\ pre_tx_mon_balance' = c.pre

\* The clock is followed up to the longer of the two cooldowns: past it no
\* test of the code tells two elapsed times apart.
SinceCap == IF trade_interval > vb_trade_interval THEN trade_interval ELSE vb_trade_interval

\* The elapsed time after asyncio.sleep(duration).
Sleep(elapsed, duration) ==
    IF elapsed + duration > SinceCap THEN SinceCap ELSE elapsed + duration

\* data/trade_history.json as earlier runs of the program can have left
\* it: absent, or the list of the records they appended (the field exec of
\* a record of an earlier run is 0).
NoFile == [exists |-> FALSE]

HistoryFiles ==
    LET won == [status |-> "success", profit |-> 1, exec |-> 0]
        lost == [status |-> "success", profit |-> -1, exec |-> 0]
        failed == [status |-> "failed", error |-> "exception", exec |-> 0]
    IN {NoFile} \cup
       {[exists |-> TRUE, trades |-> t] :
            t \in {<< >>, <<lost>>, <<failed>>, <<won, failed, lost>>}}

\* The loop of _load_trade_history over the loaded records.
RECURSIVE UpdateStats(_, _, _)
UpdateStats(trades, k, counted) ==
    IF k > Len(trades) THEN counted
    ELSE LET trade == trades[k]
             status == IF "status" \in DOMAIN trade THEN trade.status ELSE "none"
             profit == IF "profit" \in DOMAIN trade THEN trade.profit ELSE 0
             total == [counted EXCEPT !.total_trades = @ + 1]
         IN UpdateStats(trades, k + 1,
                IF status = "success"
                THEN [total EXCEPT !.successful_trades = @ + 1,
                                   !.total_profit = @ + profit]
                ELSE [total EXCEPT !.failed_trades = @ + 1])

\* A load that reads the records and leaves the counters alone.
LoadWithoutCounting(file, counted) ==
    IF file.exists
    THEN [trade_history |-> file.trades, stats |-> counted]
    ELSE [trade_history |-> << >>, stats |-> counted]

\* _load_trade_history(): the file, if there is one, becomes trade_history
\* and every record of it is counted.
load_trade_history(file, counted) ==
    IF file.exists
    THEN [trade_history |-> file.trades,
          stats |-> UpdateStats(file.trades, 1, counted)]
    ELSE [trade_history |-> << >>, stats |-> counted]

\* The allowances a wallet can hold for a router before the program starts:
\* none, one that another client left partly spent, an unlimited one.
ExistingAllowances == {0, 1, MAX_UINT256}

\* __init__ with the given file in data/, the wallet having granted every
\* router the given allowance, under the given setting of WRAPPED_MON.
InitBotWith(file, granted, wrapped_mon) ==
    /\ volume_boosting_enabled \in BOOLEAN
    /\ include_gas \in (IF volume_boosting_enabled THEN BOOLEAN ELSE {TRUE})
    /\ balance = [MON |-> StartMON, USDC |-> StartUSDC]
    /\ allowance = [v \in Venues |-> granted]
    /\ txs = << >>
    /\ pre_tx_mon_balance = 0
    /\ execs = << >>
    /\ pc = "loop"
    /\ cur = 0
    /\ cycle = 0
    /\ valid_pairs = << >>
    /\ all_prices = << >>
    /\ LET loaded ==
               load_trade_history(file,
                   [total_trades |-> 0, successful_trades |-> 0,
                    failed_trades |-> 0, total_profit |-> 0,
                    total_gas_cost |-> 0])
       IN /\ trade_history = loaded.trade_history
          /\ stats = loaded.stats
    /\ total_volume_usdc = 0
    /\ since = SinceCap
    /\ saved = Len(trade_history)
    /\ WRAPPED_MON = wrapped_mon
    /\ caches = [weth_addresses |-> [k \in {} |-> None],
                 executor_weth_addresses |-> [k \in {} |-> None],
                 pool_deployers |-> [k \in {} |-> None],
                 token_decimals |-> [k \in {"MON", "USDC"} |-> DefaultDecimals(k)]]

\* The first run: no history file yet, a wallet that has approved nothing.
InitBot == InitBotWith(NoFile, 0, ConfiguredWrappedMon)

Init ==
    /\ InitBot
    /\ call = Idle
    /\ result = Pending
    /\ tasks = << >>

(***************************************************************************)
(* ArbitrageBot.check_and_save_liquidity                                   *)
(*   liq[i]: the quotes of TOKEN_PAIRS[i] for the test amount              *)
(***************************************************************************)

RECURSIVE LiquidityOfPair(_, _, _)
LiquidityOfPair(pair, q, j) ==
    IF j > Len(DEX_ROUTERS) THEN << >>
    ELSE (IF q[DEX_ROUTERS[j]] > 0 THEN << pair >> ELSE << >>)
         \o LiquidityOfPair(pair, q, j + 1)

RECURSIVE check_and_save_liquidity(_, _)
check_and_save_liquidity(liq, i) ==
    IF i > Len(TOKEN_PAIRS) THEN << >>
    ELSE LiquidityOfPair(TOKEN_PAIRS[i], liq[i], 1)
         \o check_and_save_liquidity(liq, i + 1)

(***************************************************************************)
(* ArbitrageBot.find_and_execute_arbitrage: the admission gates            *)
(*   gas: estimated_gas_cost = gas_limit * gas_price * 2, in MON; -1 when  *)
(*        the read of web3.eth.gas_price raises                            *)
(***************************************************************************)

GasReads == (0 - 1)..MaxGasCost

\* A gate with its test turned round: it skips what exceeds the threshold.
ArbitrageAdmitsBelow(threshold, opp, gas) ==
    RatLeq(RatSub(opp.expected_profit, Rat(gas, 1)), Rat(threshold, 1))

\* The gate of arbitrage mode under a configured threshold: skipped when
\* profit_after_gas <= min_profit_threshold.
ArbitrageAdmitsUnder(threshold, opp, gas) ==
    RatLess(Rat(threshold, 1), RatSub(opp.expected_profit, Rat(gas, 1)))

\* A gate that lets through a profit after gas equal to the threshold.
ArbitrageAdmitsAtThreshold(opp, gas) ==
    RatLeq(Rat(min_profit_threshold, 1), RatSub(opp.expected_profit, Rat(gas, 1)))

ArbitrageAdmits(opp, gas) == ArbitrageAdmitsUnder(min_profit_threshold, opp, gas)

\* A boosting gate that leaves gas out whatever the flag says.
BoostingAdmitsWithoutGas(opp, gas, with_gas) ==
    ~RatLess(opp.expected_profit_percentage, Rat(0 - loss_tolerance, 1))

\* Boosting mode: skipped when the loss exceeds loss_tolerance.
BoostingAdmits(opp, gas, with_gas) ==
    IF with_gas
    THEN ~RatLess(RatPercentOf(RatSub(opp.expected_profit, Rat(gas, 1)),
                               Rat(opp.max_trade_amount, 1)),
                  Rat(0 - loss_tolerance, 1))
    ELSE ~RatLess(opp.expected_profit_percentage, Rat(0 - loss_tolerance, 1))

\* The opportunities of one iteration of the loop over valid_pairs.
Opportunities(pair, fwd, rev, amount) ==
    IF volume_boosting_enabled
    THEN find_volume_boosting_opportunities(volume_boosting_enabled, << pair >>,
                                            all_prices, << amount >>)
    ELSE SortByExpectedProfit(check_pair_price_difference(pair[1], pair[2], fwd, rev))

Admits(opp, gas) ==
    IF volume_boosting_enabled
    THEN BoostingAdmits(opp, gas, include_gas)
    ELSE ArbitrageAdmits(opp, gas)

(***************************************************************************)
(* ArbitrageBot.execute_cross_dex_arbitrage: one call                      *)
(***************************************************************************)

NewExec(opp) ==
    [pc |-> "precheck",
     cycle |-> cycle,
     opp |-> opp,
     is_volume_boosting |-> volume_boosting_enabled /\ opp.type = "volume_boosting",
     initial_balance |-> 0,
     buy_tx_hash |-> 0,
     token_middle_amount |-> 0,
     sell_tx_hash |-> 0,
     token_out_amount |-> 0,
     elapsed |-> since,
     waited |-> FALSE,
     ret |-> [ok |-> FALSE, result |-> [pending |-> TRUE]]]

TokenMiddle(e) ==
    IF e.is_volume_boosting THEN e.opp.token_out ELSE e.opp.token_middle

\* What get_token_balance returns: the balance, or 0 when the read fails.
BalanceReads(token) == {balance[token], 0}

\* return False, {"profit": 0, "profit_pct": 0}
LegFailed(e) ==
    [e EXCEPT !.pc = "returned",
              !.ret = [ok |-> FALSE, result |-> [profit |-> 0, profit_pct |-> 0]]]

\* Leg1 without the test of buy_result: execution goes on to Leg2 regardless.
AfterLeg1Unchecked(e, r) ==
    [e EXCEPT !.pc = "leg2",
              !.buy_tx_hash = r.tx_hash,
              !.token_middle_amount = r.amount_out]

\* "if not buy_result: return ..." and what Leg1 leaves in the locals.
AfterLeg1(e, r) ==
    IF r.ok
    THEN [e EXCEPT !.pc = "leg2",
                   !.buy_tx_hash = r.tx_hash,
                   !.token_middle_amount = r.amount_out]
    ELSE LegFailed(e)

\* "if not sell_result: return ..." and what Leg2 leaves in the locals.
AfterLeg2(e, r) ==
    IF r.ok
    THEN [e EXCEPT !.pc = "settle",
                   !.sell_tx_hash = r.tx_hash,
                   !.token_out_amount = r.amount_out]
    ELSE LegFailed(e)

\* An except branch that records the failure and raises again.
ExceptBranchReraise(e, i) ==
    [e |-> [e EXCEPT !.pc = "raised"],
     trade_history |->
         Append(trade_history,
                [type |-> IF e.is_volume_boosting THEN "volume_boosting" ELSE "arbitrage",
                 error |-> "exception",
                 status |-> "failed",
                 exec |-> i]),
     stats |-> [stats EXCEPT !.total_trades = @ + 1, !.failed_trades = @ + 1]]

\* The except branch of execute_cross_dex_arbitrage: the failed record, the
\* counters, and return False, {"error": ...}.
ExceptBranch(e, i) ==
    [e |-> [e EXCEPT !.pc = "returned",
                     !.ret = [ok |-> FALSE, result |-> [error |-> "exception"]]],
     trade_history |->
         Append(trade_history,
                [type |-> IF e.is_volume_boosting THEN "volume_boosting" ELSE "arbitrage",
                 error |-> "exception",
                 status |-> "failed",
                 token_in |-> e.opp.token_in,
                 token_out |-> e.opp.token_in,
                 buy_dex |-> e.opp.buy_dex,
                 sell_dex |-> e.opp.sell_dex,
                 amount |-> e.opp.max_trade_amount,
                 exec |-> i]),
     stats |-> [stats EXCEPT !.total_trades = @ + 1, !.failed_trades = @ + 1]]

\* The branch "token_in != final_token_name", which no call takes.
ProfitAgainstAmount(e, final_balance) == final_balance - e.opp.max_trade_amount

\* profit: final_token_name is token_in in both modes, so the profit is
\* final_balance - initial_balance.
RealizedProfit(e, final_balance) == final_balance - e.initial_balance

\* A net profit that takes the gas off in every mode.
ProfitLessGas(e, profit, gas) == profit - gas

\* net_profit: actual_profit where the branch taken has assigned it
\* (arbitrage mode, boosting mode with include_gas), else profit.
NetProfit(e, profit, gas) ==
    IF ~e.is_volume_boosting \/ include_gas THEN profit - gas ELSE profit

\* The trade record of a completed round trip (the field exec, the index of
\* the call that appended the record, is an annotation of the model).
SuccessRecord(e, i, final_balance, gas) ==
    LET profit == RealizedProfit(e, final_balance)
        amount == e.opp.max_trade_amount
    IN [type |-> IF e.is_volume_boosting THEN "volume_boosting" ELSE "arbitrage",
        token_in |-> e.opp.token_in,
        token_out |-> e.opp.token_in,
        sell_dex |-> e.opp.sell_dex,
        buy_dex |-> e.opp.buy_dex,
        amount |-> amount,
        initial_balance |-> e.initial_balance,
        final_balance |-> final_balance,
        token_out_amount |-> e.token_out_amount,
        token_middle_amount |-> e.token_middle_amount,
        profit |-> profit,
        profit_percentage |-> RatPercentOf(Rat(profit, 1), Rat(amount, 1)),
        estimated_gas |-> gas,
        net_profit |-> NetProfit(e, profit, gas),
        sell_tx_hash |-> e.sell_tx_hash,
        buy_tx_hash |-> e.buy_tx_hash,
        status |-> "success",
        exec |-> i]

(***************************************************************************)
(* Actions of one call of execute_cross_dex_arbitrage                      *)
(***************************************************************************)

driver == <<pc, cur, cycle, valid_pairs, all_prices, since, saved>>

ledger == <<trade_history, stats, total_volume_usdc>>

\* PreCheck: capture initial_balance of token_in.
ExecPreCheck(i) ==
    /\ execs[i].pc = "precheck"
    /\ \E b \in BalanceReads(execs[i].opp.token_in) :
          execs' = [execs EXCEPT ![i].initial_balance = b, ![i].pc = "leg1"]
    /\ UNCHANGED <<evaluation, resolver, config, balance, allowance, txs, pre_tx_mon_balance, driver, ledger>>

\* Step 1: sell max_trade_amount of token_in on sell_dex.
Leg1(i, envs) ==
    /\ execs[i].pc = "leg1"
    /\ \E env \in envs :
          LET e == execs[i]
              r == swap_tokens(Chain, e.opp.sell_dex, e.opp.token_in, TokenMiddle(e),
                               e.opp.max_trade_amount, env, [exec |-> i, leg |-> 1])
          IN /\ SetChain(r.c)
             /\ execs' = [execs EXCEPT ![i] = AfterLeg1(e, r)]
    /\ UNCHANGED <<evaluation, resolver, config, driver, ledger>>

\* Step 2: swap token_middle_amount of the middle token back on buy_dex.
Leg2(i, envs) ==
    /\ execs[i].pc = "leg2"
    /\ \E env \in envs :
          LET e == execs[i]
              r == swap_tokens(Chain, e.opp.buy_dex, TokenMiddle(e), e.opp.token_in,
                               e.token_middle_amount, env, [exec |-> i, leg |-> 2])
          IN /\ SetChain(r.c)
             /\ execs' = [execs EXCEPT ![i] = AfterLeg2(e, r)]
    /\ UNCHANGED <<evaluation, resolver, config, driver, ledger>>

\* Settle: final balance, profit, gas estimate, trade record, counters.  The
\* read of web3.eth.gas_price is the statement of the try block that raises.
ExecSettle(i) ==
    /\ execs[i].pc = "settle"
    /\ \E final_balance \in BalanceReads(execs[i].opp.token_in), gas \in GasReads :
          LET e == execs[i]
          IN IF gas < 0
             THEN LET x == ExceptBranch(e, i)
                  IN /\ execs' = [execs EXCEPT ![i] = x.e]
                     /\ trade_history' = x.trade_history
                     /\ stats' = x.stats
                     /\ UNCHANGED total_volume_usdc
             ELSE LET rec == SuccessRecord(e, i, final_balance, gas)
                  IN /\ trade_history' = Append(trade_history, rec)
                     /\ stats' = [stats EXCEPT !.total_trades = @ + 1,
                                               !.successful_trades = @ + 1,
                                               !.total_profit = @ + rec.profit]
                     /\ total_volume_usdc' =
                            IF e.is_volume_boosting /\ e.opp.token_out = "USDC"
                            THEN total_volume_usdc + e.token_middle_amount
                            ELSE total_volume_usdc
                     /\ execs' = [execs EXCEPT ![i].pc = "returned",
                                               ![i].ret = [ok |-> TRUE, result |-> rec]]
    /\ UNCHANGED <<evaluation, resolver, config, balance, allowance, txs, pre_tx_mon_balance, driver>>

(***************************************************************************)
(* Actions of run() and find_and_execute_arbitrage                         *)
(***************************************************************************)

\* A volume ceiling that is never tested.
CeilingIgnored == FALSE

\* The volume ceiling of boosting mode, checked at the top of a cycle.
CeilingReached == volume_boosting_enabled /\ total_volume_usdc >= volume_limit

\* The cooldown test at the top of a boosting cycle.
CoolingDown == volume_boosting_enabled /\ since < vb_trade_interval

\* save_trade_history(): the whole history is written to the file.
SaveTradeHistory == saved' = Len(trade_history)

\* The quotes a pass of get_all_prices can meet.  Arbitrage mode never reads
\* the price map, so one market stands for all of them there.
QuotePasses ==
    IF volume_boosting_enabled THEN Markets
    ELSE {[k \in AllPairs |-> [v \in Venues |-> MaxOut]]}

\* A boosting cycle inside the cooldown returns at once; run() saves and
\* sleeps.  The variable cycle counts the cycles that get past this test.
CycleCooldown ==
    /\ pc = "loop"
    /\ CoolingDown
    /\ SaveTradeHistory
    /\ since' = Sleep(since, price_check_interval)
    /\ UNCHANGED <<evaluation, resolver, config, balance, allowance, txs, pre_tx_mon_balance, execs, pc, cur,
                   cycle, valid_pairs, all_prices, ledger>>

\* A cycle begins: the price map and the list of valid pairs.
StartCycle(cap) ==
    /\ pc = "loop"
    /\ cycle < MaxCycles
    /\ Len(execs) < cap
    /\ ~CoolingDown
    /\ ~CeilingReached
    /\ \E market \in QuotePasses, liq \in [1..Len(TOKEN_PAIRS) -> QuoteTables] :
          /\ all_prices' = get_all_prices(market, volume_boosting_enabled)
          /\ valid_pairs' = check_and_save_liquidity(liq, 1)
    /\ cycle' = cycle + 1
    /\ pc' = "pairs"
    /\ UNCHANGED <<evaluation, resolver, config, balance, allowance, txs, pre_tx_mon_balance, execs, cur,
                   ledger, since, saved>>

\* A ceiling exit that a handler swallows: run() saves, sleeps and polls again.
CycleCeilingSwallowed ==
    /\ pc = "loop"
    /\ ~CoolingDown
    /\ CeilingReached
    /\ SaveTradeHistory
    /\ since' = Sleep(since, price_check_interval)
    /\ UNCHANGED <<evaluation, resolver, config, balance, allowance, txs, pre_tx_mon_balance, execs, pc, cur,
                   cycle, valid_pairs, all_prices, ledger>>

\* save_trade_history() and sys.exit(0) at the volume ceiling: SystemExit
\* passes every "except Exception" and ends the process through run()'s
\* finally, which saves once more.
CycleCeiling ==
    /\ pc = "loop"
    /\ ~CoolingDown
    /\ CeilingReached
    /\ SaveTradeHistory
    /\ pc' = "stopped"
    /\ UNCHANGED <<evaluation, resolver, config, balance, allowance, txs, pre_tx_mon_balance, execs, cur,
                   cycle, valid_pairs, all_prices, ledger, since>>

\* A driver that schedules the call and goes on without awaiting it.
NotAwaited(e) == TRUE

\* "await self.execute_cross_dex_arbitrage(best_opportunity)" has returned.
Awaited(e) == e.pc = "returned"

\* One iteration of the loop over valid_pairs, up to the call of
\* execute_cross_dex_arbitrage: evaluate, pick opportunities[0], gate.
\* Boosting reads all_prices and draws an amount; arbitrage quotes afresh.
IterationInputs ==
    IF volume_boosting_enabled
    THEN [fwd : {[v \in Venues |-> 0]}, rev : {[v \in Venues |-> 0]},
          amount : TradeAmounts, gas : GasReads]
    ELSE [fwd : QuoteTables, rev : QuoteTables,
          amount : {max_trade_amount}, gas : GasReads]

\* min_interval of the mode's branch.
MinInterval == IF volume_boosting_enabled THEN vb_trade_interval ELSE trade_interval

\* A gate that goes on to the call without sleeping.
CooldownNoWait(elapsed, min_interval) == elapsed

\* "if current_time - self.last_trade_time < min_interval: sleep(wait_time)":
\* the time since the last trade when the call begins.
CooldownWait(elapsed, min_interval) ==
    IF elapsed < min_interval THEN min_interval ELSE elapsed

Iterate(cap) ==
    /\ pc = "pairs"
    /\ valid_pairs # << >>
    /\ \E in \in IterationInputs :
          LET opps == Opportunities(Head(valid_pairs), in.fwd, in.rev, in.amount)
          IN IF opps = << >> \/ in.gas < 0 \/ ~Admits(Head(opps), in.gas)
             THEN UNCHANGED <<execs, cur, pc, since>>
             ELSE /\ Len(execs) < cap
                  /\ since' = CooldownWait(since, MinInterval)
                  /\ execs' = Append(execs, [NewExec(Head(opps)) EXCEPT
                                                !.elapsed = since',
                                                !.waited = since < MinInterval])
                  /\ cur' = Len(execs) + 1
                  /\ pc' = "await"
    /\ valid_pairs' = Tail(valid_pairs)
    /\ UNCHANGED <<evaluation, resolver, config, balance, allowance, txs, pre_tx_mon_balance, cycle,
                   all_prices, ledger, saved>>

\* A driver that lets a failed call end the process.
AfterExecuteHalting ==
    /\ pc = "await"
    /\ Awaited(execs[cur])
    /\ SaveTradeHistory
    /\ since' = Sleep(0, confirm_sleep)
    /\ pc' = IF execs[cur].ret.ok THEN "pairs" ELSE "stopped"
    /\ UNCHANGED <<evaluation, resolver, config, balance, allowance, txs, pre_tx_mon_balance, execs, cur,
                   cycle, valid_pairs, all_prices, ledger>>

\* A driver that leaves last_trade_time alone after the call.
AfterExecuteKeepsTime ==
    /\ pc = "await"
    /\ Awaited(execs[cur])
    /\ SaveTradeHistory
    /\ since' = Sleep(since, confirm_sleep)
    /\ pc' = "pairs"
    /\ UNCHANGED <<evaluation, resolver, config, balance, allowance, txs, pre_tx_mon_balance, execs, cur,
                   cycle, valid_pairs, all_prices, ledger>>

\* After the call: last_trade_time, save_trade_history, sleep, next pair.
AfterExecute ==
    /\ pc = "await"
    /\ Awaited(execs[cur])
    /\ SaveTradeHistory
    /\ since' = Sleep(0, confirm_sleep)
    /\ pc' = "pairs"
    /\ UNCHANGED <<evaluation, resolver, config, balance, allowance, txs, pre_tx_mon_balance, execs, cur,
                   cycle, valid_pairs, all_prices, ledger>>

\* The loop over valid_pairs is over: back in run(), save and sleep.
CycleEnd ==
    /\ pc = "pairs"
    /\ valid_pairs = << >>
    /\ SaveTradeHistory
    /\ since' = Sleep(since, price_check_interval)
    /\ pc' = "loop"
    /\ all_prices' = << >>
    /\ UNCHANGED <<evaluation, resolver, config, balance, allowance, txs, pre_tx_mon_balance, execs, cur,
                   cycle, valid_pairs, ledger>>

(***************************************************************************)
(* Spec: one execution, every outcome of its swaps                         *)
(***************************************************************************)

CycleStart == StartCycle(MaxExecs)

PairIteration == Iterate(MaxExecs)

ExecLeg1(i) == Leg1(i, SwapEnvs)

ExecLeg2(i) == Leg2(i, SwapEnvs)

Next ==
    \/ CycleStart
    \/ CycleCooldown
    \/ CycleCeiling
    \/ PairIteration
    \/ AfterExecute
    \/ CycleEnd
    \/ \E i \in 1..Len(execs) : ExecPreCheck(i)
    \/ \E i \in 1..Len(execs) : ExecLeg1(i)
    \/ \E i \in 1..Len(execs) : ExecLeg2(i)
    \/ \E i \in 1..Len(execs) : ExecSettle(i)

Spec == Init /\ [][Next]_vars

(***************************************************************************)
(* SpecRun: several executions; a swap is mined and succeeds or reverts    *)
(***************************************************************************)

RunEnvs ==
    {env \in SwapEnvs : /\ env.approve = "ok"
                        /\ env.quote = MaxOut
                        /\ env.submit \in {"ok", "revert"}
                        /\ env.got = MaxOut}

RunCycleStart == StartCycle(MaxRunExecs)

RunPairIteration == Iterate(MaxRunExecs)

RunLeg1(i) == Leg1(i, RunEnvs)

RunLeg2(i) == Leg2(i, RunEnvs)

NextRun ==
    \/ RunCycleStart
    \/ CycleCooldown
    \/ CycleCeiling
    \/ RunPairIteration
    \/ AfterExecute
    \/ CycleEnd
    \/ \E i \in 1..Len(execs) : ExecPreCheck(i)
    \/ \E i \in 1..Len(execs) : RunLeg1(i)
    \/ \E i \in 1..Len(execs) : RunLeg2(i)
    \/ \E i \in 1..Len(execs) : ExecSettle(i)

SpecRun == Init /\ [][NextRun]_vars

(***************************************************************************)
(* SpecApproval: SpecRun where the approval of a leg is granted or fails   *)
(***************************************************************************)

ApprovalEnvs ==
    {env \in SwapEnvs : /\ env.quote = MaxOut
                        /\ env.submit \in {"ok", "revert"}
                        /\ env.got = MaxOut}

ApprovalLeg1(i) == Leg1(i, ApprovalEnvs)

ApprovalLeg2(i) == Leg2(i, ApprovalEnvs)

NextApproval ==
    \/ RunCycleStart
    \/ CycleCooldown
    \/ CycleCeiling
    \/ RunPairIteration
    \/ AfterExecute
    \/ CycleEnd
    \/ \E i \in 1..Len(execs) : ExecPreCheck(i)
    \/ \E i \in 1..Len(execs) : ApprovalLeg1(i)
    \/ \E i \in 1..Len(execs) : ApprovalLeg2(i)
    \/ \E i \in 1..Len(execs) : ExecSettle(i)

SpecApproval == Init /\ [][NextApproval]_vars

(***************************************************************************)
(* SpecLive: boosting mode with a process that keeps running.  run() is    *)
(* one asyncio task: every sleep ends and every awaited call returns, so a *)
(* step that stays possible is eventually taken.  Every venue quotes the   *)
(* full amount on every pass, which is what lets the volume grow.          *)
(***************************************************************************)

InitLive == Init /\ volume_boosting_enabled

LiveMarket == [k \in AllPairs |-> [v \in Venues |-> MaxOut]]

LiveCycleStart ==
    /\ StartCycle(MaxRunExecs)
    /\ all_prices' = get_all_prices(LiveMarket, volume_boosting_enabled)

NextLive ==
    \/ LiveCycleStart
    \/ CycleCooldown
    \/ CycleCeiling
    \/ RunPairIteration
    \/ AfterExecute
    \/ CycleEnd
    \/ \E i \in 1..Len(execs) : ExecPreCheck(i)
    \/ \E i \in 1..Len(execs) : RunLeg1(i)
    \/ \E i \in 1..Len(execs) : RunLeg2(i)
    \/ \E i \in 1..Len(execs) : ExecSettle(i)

SpecLive == InitLive /\ [][NextLive]_vars /\ WF_vars(NextLive)

(***************************************************************************)
(* SpecLoop: SpecLive in either mode                                       *)
(***************************************************************************)

SpecLoop == Init /\ [][NextLive]_vars /\ WF_vars(NextLive)

(***************************************************************************)
(* SpecHistory: a run that starts from the history file of earlier runs    *)
(***************************************************************************)

InitHistory ==
    /\ \E file \in HistoryFiles : InitBotWith(file, 0, ConfiguredWrappedMon)
    /\ call = Idle
    /\ result = Pending
    /\ tasks = << >>

SpecHistory == InitHistory /\ [][NextLive]_vars

(***************************************************************************)
(* SpecWallet: a run with a wallet that other clients have used            *)
(***************************************************************************)

InitWallet ==
    /\ \E granted \in ExistingAllowances : InitBotWith(NoFile, granted, ConfiguredWrappedMon)
    /\ call = Idle
    /\ result = Pending
    /\ tasks = << >>

SpecWallet == InitWallet /\ [][NextLive]_vars

(***************************************************************************)
(* SpecEval: one call of a function of the price monitor or of the gate,   *)
(* on inputs drawn at the start; the bot itself stands still               *)
(***************************************************************************)

program == <<config, balance, allowance, txs, pre_tx_mon_balance, execs, driver, ledger>>

bot == <<resolver, program>>

GetAllPricesCalls == [fn : {"get_all_prices"}, market : Markets]

\* The quotes a call of the evaluator can meet; they reach further than a
\* pass of the bot so that two venues can differ in profit.
EvalQuoteTables == [Venues -> 0..MaxQuote]

CheckPairCalls ==
    [fn : {"check_pair_price_difference"},
     pair : {TOKEN_PAIRS[i] : i \in 1..Len(TOKEN_PAIRS)},
     fwd : EvalQuoteTables,
     rev : EvalQuoteTables]

\* The opportunities[0] the gate of arbitrage mode can be handed.
GateOpps ==
    {ArbOpportunity(TOKEN_PAIRS[i][1], TOKEN_PAIRS[i][2], sell, buy, profit) :
        i \in 1..Len(TOKEN_PAIRS), sell \in Venues, buy \in Venues,
        profit \in 1..(MaxQuote - max_trade_amount)}

GateCalls == [fn : {"gate"}, opp : GateOpps, gas : GasReads]

\* A price map as get_all_prices builds it in boosting mode, and the
\* amount drawn for the pair.
BoostingCalls ==
    [fn : {"find_volume_boosting_opportunities"},
     pair : {TOKEN_PAIRS[i] : i \in 1..Len(TOKEN_PAIRS)},
     prices : {get_all_prices(m, TRUE) : m \in [AllPairs -> EvalQuoteTables]},
     amount : TradeAmounts]

\* What one call of get_token_price meets: the router is not loaded, a
\* token address is missing, the simulate call reverts, or the venue quotes.
QuoteOutcomes ==
    [kind : {"unloaded", "no_address", "revert"}, out : {0}]
    \cup [kind : {"ok"}, out : 0..MaxQuote]

\* get_token_price: amount_out of the quote; every failure is caught and
\* returned as (0, 0, 0).
get_token_price(outcome) == IF outcome.kind = "ok" THEN outcome.out ELSE 0

\* The quotes of one pair, one task per venue of DEX_ROUTERS.
GatherCalls == [fn : {"gather"}, pair : AllPairs, outcome : [Venues -> QuoteOutcomes]]

\* Two runs of the evaluator of the mode on the same price data.
TwiceCalls ==
    [fn : {"boosting_twice"},
     pair : {TOKEN_PAIRS[i] : i \in 1..Len(TOKEN_PAIRS)},
     prices : {get_all_prices(m, TRUE) : m \in [AllPairs -> EvalQuoteTables]}]
    \cup [fn : {"arbitrage_twice"},
          pair : {TOKEN_PAIRS[i] : i \in 1..Len(TOKEN_PAIRS)},
          fwd : EvalQuoteTables,
          rev : EvalQuoteTables]

\* One iteration of arbitrage mode on the same quotes under a threshold
\* and under a raised one.
ThresholdCalls ==
    {c \in [fn : {"thresholds"},
            pair : {TOKEN_PAIRS[i] : i \in 1..Len(TOKEN_PAIRS)},
            fwd : EvalQuoteTables,
            rev : EvalQuoteTables,
            gas : GasReads,
            low : 0..MaxThreshold,
            high : 0..MaxThreshold] : c.low <= c.high}

\* The opportunities[0] the gate of boosting mode can be handed: what the
\* boosting evaluator returns.
BoostingGateOpps ==
    {find_volume_boosting_opportunities(TRUE, << c.pair >>, c.prices, << c.amount >>)[1] :
        c \in {b \in BoostingCalls :
                  find_volume_boosting_opportunities(TRUE, << b.pair >>, b.prices,
                                                     << b.amount >>) # << >>}}

BoostingGateCalls == [fn : {"boosting_gate"}, opp : BoostingGateOpps, gas : GasReads]

EvalCalls ==
    GetAllPricesCalls \cup CheckPairCalls \cup GateCalls \cup BoostingCalls
    \cup GatherCalls \cup TwiceCalls \cup ThresholdCalls \cup BoostingGateCalls

InitEval ==
    /\ InitBot
    /\ call \in EvalCalls
    /\ result = Pending
    /\ tasks = << >>

EvalGetAllPrices ==
    /\ call.fn = "get_all_prices"
    /\ result = Pending
    /\ result' = [value |-> get_all_prices(call.market, volume_boosting_enabled)]
    /\ UNCHANGED <<call, tasks, bot>>

\* The evaluator's list, and the opportunities[0] the driver takes after
\* its own sort.
EvalCheckPair ==
    /\ call.fn = "check_pair_price_difference"
    /\ result = Pending
    /\ LET opps == check_pair_price_difference(call.pair[1], call.pair[2],
                                               call.fwd, call.rev)
           sorted == SortByExpectedProfit(opps)
       IN result' = [value |-> opps,
                     best |-> IF sorted = << >> THEN << >> ELSE << Head(sorted) >>,
                     best_sell_dex |->
                         BestSell(call.fwd, 1, [dex |-> "none", out |-> 0]).dex,
                     reverse_quoted |-> ReverseQuoted(call.fwd)]
    /\ UNCHANGED <<call, tasks, bot>>

\* The driver's gate on opportunities[0]: whether the iteration goes on to
\* execute_cross_dex_arbitrage.  A read of gas_price that raises ends the
\* iteration in its except branch.
EvalGate ==
    /\ call.fn = "gate"
    /\ result = Pending
    /\ result' = [executes |-> call.gas >= 0 /\ Admits(call.opp, call.gas)]
    /\ UNCHANGED <<call, tasks, bot>>

\* The gate of the boosting branch on best_opportunity.
EvalBoostingGate ==
    /\ call.fn = "boosting_gate"
    /\ volume_boosting_enabled
    /\ result = Pending
    /\ result' = [executes |-> call.gas >= 0 /\ Admits(call.opp, call.gas)]
    /\ UNCHANGED <<call, tasks, bot>>

EvalBoosting ==
    /\ call.fn = "find_volume_boosting_opportunities"
    /\ result = Pending
    /\ result' = [value |-> find_volume_boosting_opportunities(
                                volume_boosting_enabled, << call.pair >>,
                                call.prices, << call.amount >>)]
    /\ UNCHANGED <<call, tasks, bot>>

\* The venues whose quote has completed.
Completed == {tasks[k].dex : k \in 1..Len(tasks)}

\* One of the quote tasks of the gather returns; tasks keeps the order in
\* which they do.
QuoteCompletes(dex) ==
    /\ call.fn = "gather"
    /\ result = Pending
    /\ dex \notin Completed
    /\ tasks' = Append(tasks, [dex |-> dex, out |-> get_token_price(call.outcome[dex])])
    /\ UNCHANGED <<call, result, bot>>

\* Results handed out in the order the tasks completed in.
ResultsAsCompleted(done) == [i \in 1..Len(done) |-> done[i].out]

\* price_results of asyncio.gather: the results in the order of price_tasks.
GatherResults(done) ==
    [i \in 1..Len(DEX_ROUTERS) |->
        done[CHOOSE k \in 1..Len(done) : done[k].dex = DEX_ROUTERS[i]].out]

\* "await asyncio.gather(*price_tasks)" returns and the loop over
\* price_results builds pair_prices, dex_names[i] with price_results[i].
Aggregate ==
    /\ call.fn = "gather"
    /\ result = Pending
    /\ Completed = Venues
    /\ LET price_results == GatherResults(tasks)
           q == [v \in Venues |->
                    price_results[CHOOSE i \in 1..Len(DEX_ROUTERS) : DEX_ROUTERS[i] = v]]
       IN result' = [value |-> PairPrices(q, QuoteAmount(volume_boosting_enabled))]
    /\ UNCHANGED <<call, tasks, bot>>

\* find_volume_boosting_opportunities twice on one price map; each run
\* makes its own random.uniform draw of the trade amount.
EvalBoostingTwice ==
    /\ call.fn = "boosting_twice"
    /\ result = Pending
    /\ \E first \in TradeAmounts, second \in TradeAmounts :
          result' = [draws |-> << first, second >>,
                     runs |-> << find_volume_boosting_opportunities(
                                     volume_boosting_enabled, << call.pair >>,
                                     call.prices, << first >>),
                                 find_volume_boosting_opportunities(
                                     volume_boosting_enabled, << call.pair >>,
                                     call.prices, << second >>) >>]
    /\ UNCHANGED <<call, tasks, bot>>

\* check_pair_price_difference twice while the venues quote the same.
EvalArbitrageTwice ==
    /\ call.fn = "arbitrage_twice"
    /\ result = Pending
    /\ result' = [runs |-> << check_pair_price_difference(call.pair[1], call.pair[2],
                                                          call.fwd, call.rev),
                              check_pair_price_difference(call.pair[1], call.pair[2],
                                                          call.fwd, call.rev) >>]
    /\ UNCHANGED <<call, tasks, bot>>

\* One iteration of the loop over valid_pairs in arbitrage mode under a
\* threshold: the evaluator's list, and whether opportunities[0] passes the
\* gate to execute_cross_dex_arbitrage.
IterationUnder(threshold, c) ==
    LET opps == SortByExpectedProfit(
                    CheckPairUnder(threshold, c.pair[1], c.pair[2], c.fwd, c.rev))
    IN [opps |-> opps,
        executes |-> /\ opps # << >>
                     /\ c.gas >= 0
                     /\ ArbitrageAdmitsUnder(threshold, Head(opps), c.gas)]

EvalThresholds ==
    /\ call.fn = "thresholds"
    /\ result = Pending
    /\ result' = [low |-> IterationUnder(call.low, call),
                  high |-> IterationUnder(call.high, call)]
    /\ UNCHANGED <<call, tasks, bot>>

NextEval ==
    \/ EvalGetAllPrices
    \/ EvalCheckPair
    \/ EvalGate
    \/ EvalBoostingGate
    \/ EvalBoosting
    \/ \E dex \in Venues : QuoteCompletes(dex)
    \/ Aggregate
    \/ EvalBoostingTwice
    \/ EvalArbitrageTwice
    \/ EvalThresholds

SpecEval == InitEval /\ [][NextEval]_vars

(***************************************************************************)
(* SpecCache: the resolvers, called in any order by quotes and swaps, the  *)
(* contract answering anything or raising; call and result hold the last   *)
(* call and what it returned                                               *)
(***************************************************************************)

InitCache ==
    /\ \E wrapped_mon \in WrappedMonSettings : InitBotWith(NoFile, 0, wrapped_mon)
    /\ call = Idle
    /\ result = Pending
    /\ tasks = << >>

GetWethAddress ==
    \E dex_name \in Venues, answer \in ContractAnswers :
        LET r == get_weth_address(caches.weth_addresses, WRAPPED_MON, dex_name, answer)
        IN /\ call' = [fn |-> "get_weth_address", key |-> dex_name, answer |-> answer]
           /\ result' = [value |-> r.value]
           /\ caches' = [caches EXCEPT !.weth_addresses = r.cache]
           /\ UNCHANGED <<tasks, WRAPPED_MON, program>>

ExecutorGetWethAddress ==
    \E dex_name \in Venues, answer \in ContractAnswers :
        LET r == executor_get_weth_address(caches.executor_weth_addresses,
                                           WRAPPED_MON, dex_name, answer)
        IN /\ call' = [fn |-> "executor_get_weth_address", key |-> dex_name,
                       answer |-> answer]
           /\ result' = [value |-> r.value]
           /\ caches' = [caches EXCEPT !.executor_weth_addresses = r.cache]
           /\ UNCHANGED <<tasks, WRAPPED_MON, program>>

GetPoolDeployer ==
    \E dex_name \in Venues, answer \in ContractAnswers :
        LET r == get_pool_deployer(caches.pool_deployers, dex_name, answer)
        IN /\ call' = [fn |-> "get_pool_deployer", key |-> dex_name, answer |-> answer]
           /\ result' = [value |-> r.value]
           /\ caches' = [caches EXCEPT !.pool_deployers = r.cache]
           /\ UNCHANGED <<tasks, WRAPPED_MON, program>>

GetTokenDecimals ==
    \E token_name \in TokenNames, answer \in DecimalsAnswers :
        LET r == get_token_decimals(caches.token_decimals, token_name, answer)
        IN /\ call' = [fn |-> "get_token_decimals", key |-> token_name, answer |-> answer]
           /\ result' = [value |-> r.value]
           /\ caches' = [caches EXCEPT !.token_decimals = r.cache]
           /\ UNCHANGED <<tasks, WRAPPED_MON, program>>

NextCache ==
    \/ GetWethAddress
    \/ ExecutorGetWethAddress
    \/ GetPoolDeployer
    \/ GetTokenDecimals

SpecCache == InitCache /\ [][NextCache]_vars

(***************************************************************************)
(* Properties                                                              *)
(***************************************************************************)

Execs == 1..Len(execs)

\* The mined transactions of leg l of call i with receipt status st.
LegTxs(i, l, st) ==
    {k \in 1..Len(txs) : txs[k].exec = i /\ txs[k].leg = l /\ txs[k].status = st}

\* The failed records that call i appended to the trade history.
FailedRecords(i) ==
    {k \in 1..Len(trade_history) :
        trade_history[k].exec = i /\ trade_history[k].status = "failed"}

\* Call i has ended without completing both legs.
EndedInLeg(i) == execs[i].pc = "returned" /\ execs[i].sell_tx_hash = 0

\* C1: every execution that ended because Leg1 or Leg2 failed has exactly
\* one record with status failed in the trade history.
C1_LegFailureRecorded ==
    \A i \in Execs : EndedInLeg(i) => Cardinality(FailedRecords(i)) = 1

\* Scenario D: Leg1 of call i was confirmed and its Leg2 transaction reverted.
ScenarioD(i) ==
    /\ execs[i].pc = "returned"
    /\ LegTxs(i, 1, 1) # {}
    /\ LegTxs(i, 2, 0) # {}

\* C2: in Scenario D the execution leaves a failed record that carries the
\* hash of the Leg1 transaction (the record field that holds the Leg1 hash
\* is buy_tx_hash) and the failure detail.
C2_ScenarioDRecorded ==
    \A i \in Execs :
        ScenarioD(i) =>
            \E k \in FailedRecords(i) :
                /\ "buy_tx_hash" \in DOMAIN trade_history[k]
                /\ trade_history[k].buy_tx_hash \in LegTxs(i, 1, 1)
                /\ "error" \in DOMAIN trade_history[k]

\* C3: execute_cross_dex_arbitrage never raises to its caller; when it has
\* ended it has returned a pair of a success flag and a result.
C3_NeverRaises ==
    \A i \in Execs :
        /\ execs[i].pc # "raised"
        /\ execs[i].pc = "returned" =>
              /\ DOMAIN execs[i].ret = {"ok", "result"}
              /\ execs[i].ret.ok \in BOOLEAN
              /\ "pending" \notin DOMAIN execs[i].ret.result

\* A call went through the except branch and still returned its pair.
C3_Witness ==
    \E i \in Execs :
        /\ execs[i].pc = "returned"
        /\ "error" \in DOMAIN execs[i].ret.result
        /\ FailedRecords(i) # {}

\* C4: a Leg2 swap is on chain only after a confirmed Leg1 swap of the same
\* call, and a call stands at Leg2 or beyond only with its Leg1 confirmed.
C4_Leg2AfterLeg1 ==
    /\ \A k \in 1..Len(txs) :
          txs[k].leg = 2 =>
              \E j \in LegTxs(txs[k].exec, 1, 1) : j < k
    /\ \A i \in Execs :
          execs[i].pc \in {"leg2", "settle"} => LegTxs(i, 1, 1) # {}
    /\ \A i \in Execs :
          (execs[i].pc = "returned" /\ LegTxs(i, 1, 1) = {}) =>
              \A k \in 1..Len(txs) : ~(txs[k].exec = i /\ txs[k].leg = 2)

\* A Leg2 swap was mined after its Leg1, and another call ended at Leg1.
C4_Witness ==
    \E i \in Execs : LegTxs(i, 2, 1) # {} /\ LegTxs(i, 1, 1) # {}

\* C5: every opportunity that reaches execution sells and buys on different
\* venues.
C5_VenuesDiffer ==
    \A i \in Execs : execs[i].opp.sell_dex # execs[i].opp.buy_dex

\* The pair a call trades.
PairOf(i) == <<execs[i].opp.token_in, execs[i].opp.token_out>>

\* C6: in one poll cycle at most one opportunity is executed per token pair,
\* and the list of pairs the driver iterates over holds each pair once.
C6_OncePerPairPerCycle ==
    /\ \A i, j \in Execs :
          (i # j /\ execs[i].cycle = execs[j].cycle) => PairOf(i) # PairOf(j)
    /\ \A a, b \in 1..Len(valid_pairs) :
          a # b => valid_pairs[a] # valid_pairs[b]

\* C7: executions never overlap: of any two calls, one has returned before
\* the other is anywhere between its PreCheck and its return.
C7_NoOverlap ==
    \A i, j \in Execs :
        i # j => (execs[i].pc = "returned" \/ execs[j].pc = "returned")

\* A second call has had its Leg1 mined, after the first call returned.
C7_Witness ==
    \E i, j \in Execs :
        /\ i < j
        /\ execs[i].pc = "returned"
        /\ LegTxs(j, 1, 1) # {}

\* C8: the amount_out a successful swap reports is the change of the
\* wallet's balance of the destination asset over the transaction.
C8_AmountOutIsDelta ==
    \A i \in Execs :
        /\ \A k \in LegTxs(i, 1, 1) : execs[i].token_middle_amount = txs[k].delta
        /\ \A k \in LegTxs(i, 2, 1) : execs[i].token_out_amount = txs[k].delta

\* C9: the input of a Leg2 swap is what the Leg1 swap of the same call
\* yielded, and no larger amount of the middle asset.
C9_Leg2InputIsLeg1Yield ==
    \A k \in 1..Len(txs) :
        txs[k].leg = 2 =>
            \A j \in LegTxs(txs[k].exec, 1, 1) : txs[k].amount_in = txs[j].delta

\* The slippage allowance a venue's swap routine applies, percent.
SlippageOf(dex) ==
    IF DEX_TYPES[dex] = "algebra" THEN algebra_slippage ELSE slippage_tolerance

\* m = floor(quote * (1 - pct / 100))
IsFloorOf(m, quote, pct) ==
    /\ m * 100 <= quote * (100 - pct)
    /\ quote * (100 - pct) < (m + 1) * 100

\* C10, as the code has it: a submitted swap whose pre-submission quote
\* succeeded carries the minimum floor(quote * (1 - slippage)), with the
\* configured tolerance on uniswap_v2 venues and the fixed 1% on algebra
\* venues; a swap whose quote call failed is submitted with minimum 0.
C10_MinOutFromQuote ==
    \A k \in 1..Len(txs) :
        IF txs[k].quote >= 0
        THEN IsFloorOf(txs[k].min_out, txs[k].quote, SlippageOf(txs[k].dex))
        ELSE txs[k].min_out = 0

\* One swap was submitted after a failed quote and one after a good quote.
C10_Witness ==
    \E k, j \in 1..Len(txs) :
        /\ txs[k].quote < 0 /\ txs[k].status = 1
        /\ txs[j].quote >= 0 /\ txs[j].min_out > 0

\* C10, as stated: every submitted swap carries a minimum derived from the
\* quote and the configured slippage tolerance, and never the minimum 0.
C10_NeverZeroMinOut ==
    \A k \in 1..Len(txs) :
        /\ txs[k].min_out > 0
        /\ txs[k].quote >= 0
        /\ IsFloorOf(txs[k].min_out, txs[k].quote, slippage_tolerance)

\* The volume the records of the calls of cycles before cycle c add up to:
\* what total_volume_usdc holds when cycle c begins.
RECURSIVE VolumeBefore(_, _)
VolumeBefore(c, k) ==
    IF k = 0 THEN 0
    ELSE LET rec == trade_history[k]
             counted == /\ rec.status = "success"
                        /\ rec.type = "volume_boosting"
                        /\ execs[rec.exec].opp.token_out = "USDC"
                        /\ execs[rec.exec].cycle < c
         IN (IF counted THEN rec.token_middle_amount ELSE 0) + VolumeBefore(c, k - 1)

\* C11: once the volume counter has reached volume_limit, no later poll
\* cycle evaluates or executes anything: every call belongs to a cycle that
\* began with the counter below the limit, and while the driver stands
\* between cycles with the limit reached no cycle begins.
C11_NoCycleAfterCeiling ==
    /\ \A i \in Execs :
          execs[i].is_volume_boosting =>
              VolumeBefore(execs[i].cycle, Len(trade_history)) < volume_limit
    /\ (volume_boosting_enabled /\ pc = "pairs") =>
          VolumeBefore(cycle, Len(trade_history)) < volume_limit

\* The counter reached the limit in a cycle and the driver came back to the
\* top of the loop, where the next cycle would begin.
C11_Witness ==
    /\ total_volume_usdc >= volume_limit
    /\ pc \in {"loop", "stopped"}
    /\ cycle < MaxCycles
    /\ Len(execs) < MaxRunExecs

\* The minimum inter-trade interval of the mode call i was made in.
IntervalOf(i) ==
    IF execs[i].is_volume_boosting THEN vb_trade_interval ELSE trade_interval

\* Leg1 of call i begins in this step.
Leg1Begins(i) == execs[i].pc = "leg1" /\ execs'[i].pc # "leg1"

\* C13: no Leg1 begins before the minimum inter-trade interval of the mode
\* has elapsed since the last trade; a call admitted earlier than that was
\* made after a wait that ended exactly at the interval.
C13_Leg1AfterInterval ==
    [][\A i \in Execs :
          Leg1Begins(i) => /\ since >= IntervalOf(i)
                           /\ execs[i].elapsed >= IntervalOf(i)
                           /\ execs[i].waited => execs[i].elapsed = IntervalOf(i)]_vars

\* A call that had to wait for the interval has had its Leg1 mined.
C13_Witness ==
    \E i \in Execs : execs[i].waited /\ LegTxs(i, 1, 1) # {}

\* C12: in boosting mode, once the USDC volume counter has reached
\* volume_limit the process eventually stops, with the whole trade history
\* in the file; a stopped process takes no further step, so no cycle starts
\* and nothing is traded after the stop.
C12_StopsAtCeiling ==
    /\ (volume_boosting_enabled /\ total_volume_usdc >= volume_limit)
           ~> (pc = "stopped" /\ saved = Len(trade_history))
    /\ [][pc # "stopped"]_vars

\* The process has stopped at the ceiling with its trades in the file.
C12_Witness ==
    /\ pc = "stopped"
    /\ total_volume_usdc >= volume_limit
    /\ trade_history # << >>
    /\ saved = Len(trade_history)

\* The call of fn has returned.
Returned(fn) == call.fn = fn /\ result # Pending

\* The configured pairs and their reverses.
ConfiguredOrReverse ==
    {k \in {"MON", "USDC"} \X {"MON", "USDC"} :
        \E i \in 1..Len(TOKEN_PAIRS) :
            \/ k = TOKEN_PAIRS[i]
            \/ k = <<TOKEN_PAIRS[i][2], TOKEN_PAIRS[i][1]>>}

\* The venues that returned a price > 0 for pair k.
Priced(k) == {v \in Venues : call.market[k][v] > 0}

\* C14: the map get_all_prices returns has a key exactly for each
\* configured pair or reverse for which at least one venue returned a price
\* > 0, and each entry is a non-empty map of exactly those venues to their
\* prices, all > 0.
C14_PriceMapKeys ==
    Returned("get_all_prices") =>
        /\ DOMAIN result.value = {k \in ConfiguredOrReverse : Priced(k) # {}}
        /\ \A k \in DOMAIN result.value :
              /\ DOMAIN result.value[k] = Priced(k)
              /\ DOMAIN result.value[k] # {}
              /\ \A v \in DOMAIN result.value[k] :
                    result.value[k][v].n > 0 /\ result.value[k][v].d > 0

\* A pass where one pair has no price at all and another lost a venue.
C14_Witness ==
    /\ Returned("get_all_prices")
    /\ \E k \in ConfiguredOrReverse : k \notin DOMAIN result.value
    /\ \E k \in DOMAIN result.value : DOMAIN result.value[k] # Venues

\* The venues with the best forward price of the call.
BestForward ==
    {v \in Venues : call.fwd[v] > 0 /\ \A w \in Venues : call.fwd[w] <= call.fwd[v]}

\* What a buy-back on venue v recovers beyond the amount traded.
ProfitOn(v) == call.rev[v] - max_trade_amount

\* Venue v returned a valid reverse quote with a profit above the threshold.
Profitable(v) ==
    /\ BestForward # {}
    /\ call.rev[v] > 0
    /\ ProfitOn(v) > min_profit_threshold

\* The entries of the returned list that buy back on venue v.
EmittedFor(v) == {k \in 1..Len(result.value) : result.value[k].buy_dex = v}

\* C16: check_pair_price_difference emits exactly one opportunity for each
\* venue with a valid reverse quote and a profit (recovered - trade amount)
\* strictly above min_profit_threshold and none for any other venue, a
\* profit equal to the threshold included; every emitted opportunity sells
\* on a venue with the best forward price and carries that profit.
C16_OnePerProfitableVenue ==
    Returned("check_pair_price_difference") =>
        /\ \A v \in Venues :
              Cardinality(EmittedFor(v)) = IF Profitable(v) THEN 1 ELSE 0
        /\ \A k \in 1..Len(result.value) :
              /\ result.value[k].sell_dex \in BestForward
              /\ result.value[k].expected_profit = Rat(ProfitOn(result.value[k].buy_dex), 1)

\* One venue is emitted while another, whose profit equals the threshold,
\* is not.
C16_Witness ==
    /\ Returned("check_pair_price_difference")
    /\ \E v, w \in Venues :
          /\ EmittedFor(v) # {}
          /\ call.rev[w] > 0
          /\ ProfitOn(w) = min_profit_threshold
          /\ EmittedFor(w) = {}

\* C17: the evaluator's list is in order of non-increasing expected_profit,
\* and the opportunity the driver selects sells on a venue with the best
\* forward price and buys back on a venue that recovers the most; nothing
\* is selected exactly when no venue is above the threshold.
C17_BestFirst ==
    Returned("check_pair_price_difference") =>
        /\ \A j, k \in 1..Len(result.value) :
              j < k => RatLeq(result.value[k].expected_profit,
                              result.value[j].expected_profit)
        /\ (result.best = << >>) = (\A v \in Venues : ~Profitable(v))
        /\ result.best # << >> =>
              /\ result.best[1] = result.value[1]
              /\ result.best[1].sell_dex \in BestForward
              /\ \A w \in Venues : call.rev[w] <= call.rev[result.best[1].buy_dex]

\* Both venues are emitted, and the one queried first recovers less.
C17_Witness ==
    /\ Returned("check_pair_price_difference")
    /\ Len(result.value) = Len(DEX_ROUTERS)
    /\ ProfitOn(DEX_ROUTERS[1]) < ProfitOn(DEX_ROUTERS[2])
    /\ result.best[1].buy_dex = DEX_ROUTERS[2]

\* expected_profit - estimated_gas_cost of the gated opportunity; the
\* evaluator's profits are whole amounts.
ProfitAfterGas == call.opp.expected_profit.n - call.gas

\* C18: in arbitrage mode the driver goes on to execute an opportunity only
\* if expected_profit - estimated_gas_cost > min_profit_threshold; when the
\* difference equals the threshold the opportunity is skipped.
C18_GateAboveThreshold ==
    (Returned("gate") /\ ~volume_boosting_enabled /\ call.gas >= 0) =>
        /\ call.opp.expected_profit.d = 1
        /\ result.executes => ProfitAfterGas > min_profit_threshold
        /\ ProfitAfterGas = min_profit_threshold => ~result.executes

\* An opportunity above the threshold before gas and at it after gas.
C18_Witness ==
    /\ Returned("gate")
    /\ ~volume_boosting_enabled
    /\ call.gas > 0
    /\ call.opp.expected_profit.n > min_profit_threshold
    /\ ProfitAfterGas = min_profit_threshold
    /\ ~result.executes

\* The keys of the pair of the call in the price map.
ForwardKey == call.pair

ReverseKey == <<call.pair[2], call.pair[1]>>

\* The pair has a forward price.
HasForwardPrice == ForwardKey \in DOMAIN call.prices

\* The target venue has a reverse price.
TargetHasReversePrice ==
    /\ ReverseKey \in DOMAIN call.prices
    /\ target_dex \in DOMAIN call.prices[ReverseKey]

\* A best forward price of the pair.
BestForwardPrice ==
    LET fp == call.prices[ForwardKey]
    IN fp[CHOOSE v \in DOMAIN fp : \A w \in DOMAIN fp : fp[w].n * fp[v].d <= fp[v].n * fp[w].d]

\* profitPercent = (recovered - tradeAmount) / tradeAmount * 100 compared
\* with -loss_tolerance, where recovered = tradeAmount * f * r for the best
\* forward price f and the target venue's reverse price r: the trade amount
\* cancels, and with f * r = n / d the comparison is between whole numbers.
LossVersusTolerance ==
    LET f == BestForwardPrice
        r == call.prices[ReverseKey][target_dex]
        n == f.n * r.n
        d == f.d * r.d
    IN 100 * (n - d) + loss_tolerance * d

\* C19: in boosting mode find_volume_boosting_opportunities returns an
\* opportunity for the pair if and only if the pair has a forward price,
\* the target venue has a reverse price and profitPercent >= -loss_tolerance;
\* a loss equal to the tolerance is admitted.
C19_AdmittedIffWithinTolerance ==
    (Returned("find_volume_boosting_opportunities") /\ volume_boosting_enabled) =>
        /\ Len(result.value) <= 1
        /\ (Len(result.value) = 1) =
              (HasForwardPrice /\ TargetHasReversePrice /\ LossVersusTolerance >= 0)

\* A loss exactly equal to the tolerance, admitted.
C19_Witness ==
    /\ Returned("find_volume_boosting_opportunities")
    /\ volume_boosting_enabled
    /\ HasForwardPrice
    /\ TargetHasReversePrice
    /\ LossVersusTolerance = 0
    /\ Len(result.value) = 1

\* C20: every volume-boosting opportunity buys back on target_dex; when the
\* target venue has no reverse price the pair is skipped, whatever reverse
\* prices the other venues have.
C20_BuyVenueIsTarget ==
    Returned("find_volume_boosting_opportunities") =>
        /\ \A k \in 1..Len(result.value) : result.value[k].buy_dex = target_dex
        /\ ~TargetHasReversePrice => result.value = << >>

\* The target venue has no reverse price, another venue has one that would
\* be within the tolerance, and nothing is returned.
C20_Witness ==
    /\ Returned("find_volume_boosting_opportunities")
    /\ volume_boosting_enabled
    /\ HasForwardPrice
    /\ ReverseKey \in DOMAIN call.prices
    /\ target_dex \notin DOMAIN call.prices[ReverseKey]
    /\ \E v \in DOMAIN call.prices[ReverseKey] :
          LET f == BestForwardPrice
              r == call.prices[ReverseKey][v]
          IN f.n * r.n >= f.d * r.d
    /\ result.value = << >>

\* The quote of venue v succeeded with a price > 0.
QuotedAbove0(v) == call.outcome[v].kind = "ok" /\ call.outcome[v].out > 0

\* C15: the prices of a pair are aggregated only after the quote of every
\* venue has completed or failed; whatever subset of the venues failed and
\* in whatever order the quotes completed, the aggregation returns a map
\* (it does not raise) that holds each remaining venue with the price of
\* that venue's own quote.
C15_FailuresAreIndependent ==
    (call.fn = "gather" /\ result # Pending) =>
        /\ Completed = Venues
        /\ "value" \in DOMAIN result
        /\ DOMAIN result.value = {v \in Venues : QuotedAbove0(v)}
        /\ \A v \in DOMAIN result.value :
              result.value[v] = Rat(call.outcome[v].out, QuoteAmount(volume_boosting_enabled))

\* A venue's quote failed, the venue queried first completed last, and the
\* other venue's price is reported.
C15_Witness ==
    /\ call.fn = "gather"
    /\ result # Pending
    /\ tasks[Len(tasks)].dex = DEX_ROUTERS[1]
    /\ \E v, w \in Venues :
          /\ call.outcome[v].kind = "revert"
          /\ w \in DOMAIN result.value

\* Both runs of the evaluator have returned.
RanTwice == call.fn \in {"boosting_twice", "arbitrage_twice"} /\ result # Pending

\* Entries a and b name the same venues and the same profit percentage.
SameRoute(a, b) ==
    /\ a.sell_dex = b.sell_dex
    /\ a.buy_dex = b.buy_dex
    /\ RatEq(a.expected_profit_percentage, b.expected_profit_percentage)

C22_ThresholdMonotone ==
    Returned("thresholds") =>
        /\ Len(result.high.opps) <= Len(result.low.opps)
        /\ result.high.executes => result.low.executes

\* The raised threshold emits fewer opportunities and stops the execution.
C22_Witness ==
    /\ Returned("thresholds")
    /\ Len(result.high.opps) < Len(result.low.opps)
    /\ result.high.opps # << >>
    /\ result.low.executes
    /\ ~result.high.executes

\* The success records of the trade history.
SuccessRecords ==
    {k \in 1..Len(trade_history) : trade_history[k].status = "success"}

\* C23: in every success record the profit is the final balance minus the
\* initial balance of the input asset, the initial balance being the one
\* the call captured before Leg1, and profit_percentage is profit / trade
\* amount * 100.
C23_ProfitIsBalanceDifference ==
    \A k \in SuccessRecords :
        LET rec == trade_history[k]
        IN /\ rec.token_out = rec.token_in
           /\ rec.initial_balance = execs[rec.exec].initial_balance
           /\ rec.amount = execs[rec.exec].opp.max_trade_amount
           /\ rec.profit = rec.final_balance - rec.initial_balance
           /\ rec.profit_percentage.n * rec.amount = rec.profit * 100 * rec.profit_percentage.d

\* A success record whose initial balance is not the amount traded.
C23_Witness ==
    \E k \in SuccessRecords :
        /\ trade_history[k].initial_balance # trade_history[k].amount
        /\ trade_history[k].final_balance > 0
        /\ trade_history[k].profit # 0

\* C24: the profit of a success record equals Y - trade amount, where Y is
\* the amount of the input asset that Leg2 reported (token_out_amount).
C24_ProfitIsYieldMinusAmount ==
    \A k \in SuccessRecords :
        trade_history[k].profit = trade_history[k].token_out_amount - trade_history[k].amount

\* Call i has returned False: a leg failed or the except branch ran.
CallFailed(i) == execs[i].pc = "returned" /\ ~execs[i].ret.ok

\* C25: a cycle with a failed trade or a caught exception does not stop the
\* poll loop.  The process stops only from the top of a boosting cycle that
\* finds the volume ceiling reached; every cycle that has begun comes back
\* to the top of the loop; and at the top of the loop, the ceiling not
\* reached, the next poll can always begin (as long as the model follows
\* cycles and calls).
C25_LoopGoesOn ==
    /\ [][pc' = "stopped" =>
             /\ pc = "loop"
             /\ volume_boosting_enabled
             /\ total_volume_usdc >= volume_limit]_vars
    /\ (pc \in {"pairs", "await"}) ~> (pc = "loop")
    /\ [](/\ pc = "loop"
          /\ cycle < MaxCycles
          /\ Len(execs) < MaxRunExecs
          /\ ~(volume_boosting_enabled /\ total_volume_usdc >= volume_limit)
          => ENABLED (LiveCycleStart \/ CycleCooldown))

\* A later cycle has begun after a cycle in which a call failed.
C25_Witness ==
    /\ pc = "pairs"
    /\ \E i \in Execs : CallFailed(i) /\ execs[i].cycle < cycle

RECURSIVE ProfitOfSuccesses(_)
ProfitOfSuccesses(k) ==
    IF k = 0 THEN 0
    ELSE ProfitOfSuccesses(k - 1)
         + (IF trade_history[k].status = "success" THEN trade_history[k].profit ELSE 0)

\* C26: after the history load and any executions, the counters are a fold
\* over trade_history: total_trades is the number of records,
\* successful_trades and failed_trades are the numbers of records with status
\* success and with any other status, total_trades is their sum, and
\* total_profit is the sum of profit over the success records.
C26_CountersAreFold ==
    /\ stats.total_trades = Len(trade_history)
    /\ stats.successful_trades = Cardinality(SuccessRecords)
    /\ stats.failed_trades =
           Cardinality({k \in 1..Len(trade_history) :
                           trade_history[k].status # "success"})
    /\ stats.total_trades = stats.successful_trades + stats.failed_trades
    /\ stats.total_profit = ProfitOfSuccesses(Len(trade_history))

C26_Witness ==
    /\ \E k \in SuccessRecords : trade_history[k].exec = 0
    /\ \E k \in SuccessRecords :
           trade_history[k].exec > 0 /\ trade_history[k].profit # 0
    /\ \E k \in 1..Len(trade_history) :
           trade_history[k].exec > 0 /\ trade_history[k].status = "failed"

\* C27: every opportunity passed to execution has a positive trade amount:
\* max_trade_amount of ARBITRAGE_CONFIG in arbitrage mode, and in boosting
\* mode the rounded draw, which lies between min_trade_amount and
\* max_trade_amount of VOLUME_BOOSTING.
C27_AmountPositive ==
    \A i \in Execs :
        LET amount == execs[i].opp.max_trade_amount
        IN /\ amount > 0
           /\ ~execs[i].is_volume_boosting => amount = max_trade_amount
           /\ execs[i].is_volume_boosting =>
                  /\ amount >= vb_min_trade_amount
                  /\ amount <= vb_max_trade_amount
                  /\ \E trade_amount \in Draws : amount = Round2(trade_amount)

C27_Witness ==
    /\ \E i \in Execs :
           execs[i].is_volume_boosting /\ execs[i].opp.max_trade_amount = vb_max_trade_amount
    /\ \E trade_amount \in Draws :
           /\ trade_amount.n % trade_amount.d # 0
           /\ Round2(trade_amount) = vb_max_trade_amount

\* The wallet's balance of the middle asset before its k-th swap.
RECURSIVE MiddleBalanceBefore(_)
MiddleBalanceBefore(k) ==
    IF k <= 1 THEN StartUSDC
    ELSE LET tx == txs[k - 1]
         IN MiddleBalanceBefore(k - 1)
            + (IF tx.status = 1 /\ tx.token_out = "USDC" THEN tx.delta ELSE 0)
            - (IF tx.status = 1 /\ tx.token_in = "USDC" THEN tx.amount_in ELSE 0)

\* Call i ended with its Leg1 swap mined and no successful Leg2 swap.
Stranding(i) ==
    /\ execs[i].pc = "returned"
    /\ LegTxs(i, 1, 1) # {}
    /\ LegTxs(i, 2, 1) = {}

\* The middle-asset units stranded by the calls before call j.
RECURSIVE StrandedBefore(_)
StrandedBefore(j) ==
    IF j <= 1 THEN 0
    ELSE StrandedBefore(j - 1)
         + (IF Stranding(j - 1)
            THEN txs[CHOOSE k \in LegTxs(j - 1, 1, 1) : TRUE].delta
            ELSE 0)

\* C28: no swap takes as input middle-asset units that an earlier failed
\* round trip stranded: the input of a swap of the middle asset fits in the
\* wallet's balance of it without the stranded units.
C28_StrandedNeverSpent ==
    \A k \in 1..Len(txs) :
        txs[k].token_in = "USDC" =>
            txs[k].amount_in <= MiddleBalanceBefore(k) - StrandedBefore(txs[k].exec)

\* The swaps that a step submits.
Submitted == (Len(txs) + 1)..Len(txs')

\* C29: when a swap of a non-native asset is submitted, the router's
\* allowance for the asset covers the input amount, and the approval has been
\* skipped only if the allowance was nonzero before.
C29_AllowanceCoversInput ==
    [][\A k \in Submitted :
           txs'[k].token_in # "MON" =>
               /\ allowance'[txs'[k].dex] >= txs'[k].amount_in
               /\ allowance'[txs'[k].dex] = allowance[txs'[k].dex] =>
                      allowance[txs'[k].dex] > 0]_vars

\* The step in which the approval of the Leg2 input of call i fails: the
\* wallet holds the input, the router has no allowance, and none is granted.
\* (The input of Leg1 is the native asset, which needs no approval.)
ApprovalFails(i) ==
    /\ execs[i].pc = "leg2"
    /\ execs'[i].pc = "returned"
    /\ TokenMiddle(execs[i]) # "MON"
    /\ balance[TokenMiddle(execs[i])] >= execs[i].token_middle_amount
    /\ allowance[execs[i].opp.buy_dex] = 0
    /\ allowance'[execs[i].opp.buy_dex] = 0

\* C30: when a token approval fails during the execution of an opportunity,
\* the opportunity halts and no swap has been submitted for it.
C30_NoSwapWhenApprovalFails ==
    [][\A i \in Execs :
           ApprovalFails(i) => \A k \in 1..Len(txs') : txs'[k].exec # i]_vars

\* Call i returned from "if not buy_result" or "if not sell_result".
LegFailure(i) ==
    /\ execs[i].pc = "returned"
    /\ ~execs[i].ret.ok
    /\ "profit" \in DOMAIN execs[i].ret.result

\* A swap of call i was mined and reverted.
MinedAndReverted(i) == LegTxs(i, 1, 0) \cup LegTxs(i, 2, 0) # {}

\* The error details of the failed records of call i.
ErrorDetail(i) == {trade_history[k].error : k \in FailedRecords(i)}

\* C31: a leg failure by a mined and reverted transaction and a leg failure
\* before or at submission both leave a failed record, and the error details
\* of the two records differ.
C31_RevertToldApart ==
    \A i, j \in Execs :
        /\ LegFailure(i) /\ MinedAndReverted(i)
        /\ LegFailure(j) /\ ~MinedAndReverted(j)
        => /\ ErrorDetail(i) # {}
           /\ ErrorDetail(j) # {}
           /\ ErrorDetail(i) \cap ErrorDetail(j) = {}

\* (expected_profit - estimated_gas_cost) / max_trade_amount * 100 against
\* -loss_tolerance, for the opportunity and the gas of the call.
LossAfterGasTolerated ==
    LET profit == call.opp.expected_profit
    IN (profit.n - call.gas * profit.d) * 100
           >= (0 - loss_tolerance) * call.opp.max_trade_amount * profit.d

\* expected_profit_percentage against -loss_tolerance.
LossTolerated ==
    LET pct == call.opp.expected_profit_percentage
    IN pct.n >= (0 - loss_tolerance) * pct.d

\* C32: in boosting mode the driver executes an accepted opportunity only
\* if, with include_gas_in_calculation, the profit less the estimated gas is
\* within loss_tolerance of the trade amount, and without the flag the
\* expected profit percentage is, gas not entering the comparison.
C32_BoostingGate ==
    (Returned("boosting_gate") /\ call.gas >= 0) =>
        /\ call.opp.expected_profit.d > 0
        /\ call.opp.expected_profit_percentage.d > 0
        /\ include_gas => (result.executes <=> LossAfterGasTolerated)
        /\ ~include_gas => (result.executes <=> LossTolerated)

C32_Witness ==
    /\ Returned("boosting_gate")
    /\ call.gas > 0
    /\ ~include_gas
    /\ ~LossAfterGasTolerated
    /\ result.executes

\* C33, as the code has it: in a success record net_profit is profit less
\* the estimated gas of the two legs in arbitrage mode and in boosting mode
\* with include_gas_in_calculation; in boosting mode without the flag it is
\* profit.
C33_NetProfitFollowsFlag ==
    \A k \in SuccessRecords :
        LET rec == trade_history[k]
        IN rec.net_profit =
               IF rec.type = "volume_boosting" /\ ~include_gas
               THEN rec.profit
               ELSE rec.profit - rec.estimated_gas

C33_Witness ==
    \E k \in SuccessRecords :
        /\ trade_history[k].type = "volume_boosting"
        /\ ~include_gas
        /\ trade_history[k].estimated_gas > 0

\* C33, as stated: in every success record net_profit is profit less the
\* estimated gas, whatever the mode and the flag.
C33_NetProfitLessGas ==
    \A k \in SuccessRecords :
        trade_history[k].net_profit =
            trade_history[k].profit - trade_history[k].estimated_gas

\* The first venue, in the order of DEX_ROUTERS, with the best forward price.
FirstBestForward ==
    DEX_ROUTERS[CHOOSE i \in 1..Len(DEX_ROUTERS) :
                    /\ DEX_ROUTERS[i] \in BestForward
                    /\ \A j \in 1..(i - 1) : DEX_ROUTERS[j] \notin BestForward]

\* C34: the arbitrage evaluator sells on the venue with the highest valid
\* forward price, the first in venue order among equals; when no venue has a
\* valid forward price it returns an empty list and asks for no reverse
\* quote.
C34_SellVenueIsFirstBest ==
    Returned("check_pair_price_difference") =>
        IF BestForward = {}
        THEN /\ result.value = << >>
             /\ result.best_sell_dex = "none"
             /\ result.reverse_quoted = {}
        ELSE /\ result.best_sell_dex = FirstBestForward
             /\ \A k \in 1..Len(result.value) :
                    result.value[k].sell_dex = FirstBestForward

C34_Witness ==
    /\ Returned("check_pair_price_difference")
    /\ Cardinality(BestForward) > 1
    /\ result.value # << >>

\* The step is the settle step of a successful boosting round trip of call i
\* whose middle asset is USDC.
SettlesBoosting(i) ==
    /\ execs[i].pc = "settle"
    /\ execs'[i].pc = "returned"
    /\ execs'[i].ret.ok
    /\ execs[i].is_volume_boosting
    /\ execs[i].opp.token_out = "USDC"

\* C35: the cumulative USDC volume never decreases, and it changes only at
\* the settle step of a successful boosting round trip whose middle asset is
\* USDC, where it grows by the amount of the middle asset that the Leg1 swap
\* of that trade received.
C35_VolumeGrowsByLeg1Yield ==
    [][/\ total_volume_usdc' >= total_volume_usdc
       /\ total_volume_usdc' # total_volume_usdc =>
              \E i \in Execs :
                  /\ SettlesBoosting(i)
                  /\ \A k \in LegTxs(i, 1, 1) :
                         total_volume_usdc' - total_volume_usdc = txs[k].delta]_vars

\* C36: in boosting mode no Leg1 swap is submitted while the cumulative USDC
\* volume is at or above volume_limit, later executions of the poll cycle
\* that crossed the limit included.
C36_NoLeg1AtCeiling ==
    [][\A k \in Submitted :
           (txs'[k].leg = 1 /\ execs[txs'[k].exec].is_volume_boosting) =>
               total_volume_usdc < volume_limit]_vars

\* The entries of cache c are still in cache d, with the values they had.
Kept(c, d) == \A k \in DOMAIN c : k \in DOMAIN d /\ d[k] = c[k]

\* The cache that function fn resolves into.
CacheOf(fn, all) ==
    IF fn = "get_weth_address" THEN all.weth_addresses
    ELSE IF fn = "executor_get_weth_address" THEN all.executor_weth_addresses
    ELSE IF fn = "get_pool_deployer" THEN all.pool_deployers
    ELSE all.token_decimals

\* C37: in the wrapped-asset-address caches, the decimals cache and the
\* pool-deployer cache an entry once written is never overwritten with
\* another value and never removed, whatever calls follow in whatever order;
\* a resolution that fails writes no entry.
C37_CachesWriteOnce ==
    [][/\ Kept(caches.weth_addresses, caches'.weth_addresses)
       /\ Kept(caches.executor_weth_addresses, caches'.executor_weth_addresses)
       /\ Kept(caches.pool_deployers, caches'.pool_deployers)
       /\ Kept(caches.token_decimals, caches'.token_decimals)
       /\ (/\ call'.fn # "none"
           /\ call'.answer.raises
           /\ call'.fn \in {"get_weth_address", "executor_get_weth_address"} =>
                  WRAPPED_MON.hex = "") =>
              caches' = caches]_vars

\* The contract answers a second call for a cached key with another value,
\* and the call returns the cached one.
C37_Witness ==
    /\ call.fn \in {"get_weth_address", "executor_get_weth_address", "get_pool_deployer"}
    /\ ~call.answer.raises
    /\ WRAPPED_MON.hex = ""
    /\ call.key \in DOMAIN CacheOf(call.fn, caches)
    /\ CacheOf(call.fn, caches)[call.key] # call.answer.value
    /\ result.value = CacheOf(call.fn, caches)[call.key]

\* The estimated gas of the first k records of the trade history.
RECURSIVE GasOfRecords(_)
GasOfRecords(k) ==
    IF k = 0 THEN 0
    ELSE GasOfRecords(k - 1)
         + (IF "estimated_gas" \in DOMAIN trade_history[k]
            THEN trade_history[k].estimated_gas ELSE 0)

\* C38: stats.total_gas_cost is the sum of the estimated gas cost over the
\* recorded trades.
C38_GasCounterIsSum == stats.total_gas_cost = GasOfRecords(Len(trade_history))

\* The driver comes back from a call of execute_cross_dex_arbitrage.
CallComesBack == pc = "await" /\ pc' # "await"

\* C39: last_trade_time is set to the current time after every call of
\* execute_cross_dex_arbitrage, successful or not, and no other step of a
\* cycle or of a pair iteration changes it.  since is the time elapsed from
\* last_trade_time: it restarts from zero when the timestamp is set (the
\* sleep that follows the call then passes), and otherwise only grows.
C39_TimestampAfterEveryCall ==
    [][/\ CallComesBack => since' = Sleep(0, confirm_sleep)
       /\ ~CallComesBack => since' >= since]_vars

\* A failed call has come back and the timestamp has been set.
C39_Witness ==
    /\ pc = "pairs"
    /\ cur > 0
    /\ execs[cur].pc = "returned"
    /\ ~execs[cur].ret.ok
    /\ execs[cur].elapsed > Sleep(0, confirm_sleep)
    /\ since = Sleep(0, confirm_sleep)

\* The confirmed swaps of leg l of call i that went through venue dex.
LegTxsOn(i, l, dex) == {h \in LegTxs(i, l, 1) : txs[h].dex = dex}

\* C40: in every success record sell_tx_hash is the hash of the swap that
\* was executed on sell_dex (Leg1) and buy_tx_hash is the hash of the swap
\* that was executed on buy_dex (Leg2).
C40_HashesNameTheirVenues ==
    \A k \in SuccessRecords :
        LET rec == trade_history[k]
        IN /\ rec.sell_tx_hash \in LegTxsOn(rec.exec, 1, rec.sell_dex)
           /\ rec.buy_tx_hash \in LegTxsOn(rec.exec, 2, rec.buy_dex)
====
